---- MODULE Spec2Model ----
(***************************************************************************)
(* Multichain wallet service: chain registry, derivation-path value type,  *)
(* the WalletService derivation functions, the per-chain drivers, and the  *)
(* HTTP / gRPC wallet handlers that share one WalletService behind a       *)
(* mutex.                                                                  *)
(*                                                                         *)
(* Hashes, key derivations and address encoders are modelled as injective  *)
(* constructors: a derived key is the record of what was fed into the      *)
(* derivation, an address is the record of encoder and key.                *)
(***************************************************************************)
EXTENDS Integers, Sequences, FiniteSets, TLC

VARIABLES
    build,      \* "debug" | "release": overflow checks on or off, fixed per process
    API_KEY,    \* the API_KEY environment variable, fixed per process
    pc,         \* [Clients -> handler position]
    req,        \* [Clients -> the request being served, or NoReq]
    chains,     \* [Clients -> chain types resolved from the request's symbol(s)]
    resp,       \* [Clients -> the response, or NoResp]
    mutex,      \* holder of the WalletService mutex, or Free
    lookups,    \* [Clients -> calls of get_chain_types_by_symbol made by the request]
    calls,      \* [Clients -> calls of generate_wallet_address made by the request]
    locked,     \* [Clients -> whether the request has taken the mutex]
    arg,        \* the input of the direct calls of this behaviour
    last,       \* the latest direct call of a function, or NoCall
    prev        \* the direct call before it, or NoCall

vars == <<build, API_KEY, pc, req, chains, resp, mutex, lookups, calls, locked,
          arg, last, prev>>

srvVars == <<pc, req, chains, resp, mutex, lookups, calls, locked>>
fnVars == <<last, prev>>

(***************************************************************************)
(* u32.  The model checker's integers stop at 2^31 - 1, so a u32 is kept   *)
(* as its top bit and its low 31 bits.  The top bit is BIP-32's hardened   *)
(* flag.                                                                   *)
(***************************************************************************)
Max31 == 2147483647

U32(hi, lo) == [hi |-> hi, lo |-> lo]

\* a literal below 2^31
Lit(n) == U32(0, n)

U32Max == U32(1, Max31)

\* a < b on u32
U32Lt(a, b) == a.hi < b.hi \/ (a.hi = b.hi /\ a.lo < b.lo)

\* a + n for a u32 a and a natural n < 2^31: the wrapped sum and the carry out
U32Add(a, n) ==
    IF a.lo <= Max31 - n
    THEN [val |-> U32(a.hi, a.lo + n), carry |-> FALSE]
    ELSE IF a.hi = 0
         THEN [val |-> U32(1, a.lo - (Max31 - n) - 1), carry |-> FALSE]
         ELSE [val |-> U32(0, a.lo - (Max31 - n) - 1), carry |-> TRUE]

(***************************************************************************)
(* Results                                                                 *)
(***************************************************************************)
Ok(v) == [tag |-> "Ok", val |-> v]
Err(e) == [tag |-> "Err", err |-> e]
Panic == [tag |-> "Panic"]

IsOk(r) == r.tag = "Ok"
IsErr(r) == r.tag = "Err"
IsPanic(r) == r.tag = "Panic"

\* `a + b` on u32 under the build's overflow mode
CheckedAdd(a, n) ==
    LET s == U32Add(a, n)
    IN  IF s.carry /\ build = "debug" THEN Panic ELSE Ok(s.val)

(***************************************************************************)
(* Chain registry (core/chain_info.rs)                                     *)
(***************************************************************************)
ChainType ==
    {"BitcoinLegacy", "BitcoinSegwit", "BitcoinTaproot", "Ethereum", "Ripple",
     "Solana", "Tron", "Sui", "Stellar", "Monero", "Near", "Ton", "Dogecoin",
     "Polkadot", "Cosmos", "Osmosis", "Juno", "Secret", "Akash", "Sei",
     "Celestia", "Injective", "Tezos", "Eos", "Hedera", "Filecoin", "Mina",
     "InternetComputer"}

ChainInfo(name, symbol, coin_type) ==
    [name |-> name, symbol |-> symbol, coin_type |-> coin_type]

get_chain_info(chain_type) ==
    CASE chain_type = "BitcoinLegacy"    -> ChainInfo("Bitcoin", "BTC", 0)
      [] chain_type = "BitcoinSegwit"    -> ChainInfo("Bitcoin", "BTC", 0)
      [] chain_type = "BitcoinTaproot"   -> ChainInfo("Bitcoin", "BTC", 0)
      [] chain_type = "Ethereum"         -> ChainInfo("Ethereum", "ETH", 60)
      [] chain_type = "Ripple"           -> ChainInfo("Ripple", "XRP", 144)
      [] chain_type = "Solana"           -> ChainInfo("Solana", "SOL", 501)
      [] chain_type = "Tron"             -> ChainInfo("TRON", "TRX", 195)
      [] chain_type = "Sui"              -> ChainInfo("Sui", "SUI", 784)
      [] chain_type = "Stellar"          -> ChainInfo("Stellar", "XLM", 148)
      [] chain_type = "Monero"           -> ChainInfo("Monero", "XMR", 128)
      [] chain_type = "Near"             -> ChainInfo("NEAR Protocol", "NEAR", 397)
      [] chain_type = "Ton"              -> ChainInfo("Toncoin", "TON", 607)
      [] chain_type = "Dogecoin"         -> ChainInfo("Dogecoin", "DOGE", 3)
      [] chain_type = "Polkadot"         -> ChainInfo("Polkadot", "DOT", 354)
      [] chain_type = "Cosmos"           -> ChainInfo("Cosmos", "ATOM", 118)
      [] chain_type = "Osmosis"          -> ChainInfo("Osmosis", "OSMO", 118)
      [] chain_type = "Juno"             -> ChainInfo("Juno", "JUNO", 118)
      [] chain_type = "Secret"           -> ChainInfo("Secret Network", "SCRT", 529)
      [] chain_type = "Akash"            -> ChainInfo("Akash", "AKT", 118)
      [] chain_type = "Sei"              -> ChainInfo("Sei", "SEI", 118)
      [] chain_type = "Celestia"         -> ChainInfo("Celestia", "TIA", 118)
      [] chain_type = "Injective"        -> ChainInfo("Injective", "INJ", 60)
      [] chain_type = "Tezos"            -> ChainInfo("Tezos", "XTZ", 1729)
      [] chain_type = "Eos"              -> ChainInfo("EOS", "EOS", 194)
      [] chain_type = "Hedera"           -> ChainInfo("Hedera", "HBAR", 3030)
      [] chain_type = "Filecoin"         -> ChainInfo("Filecoin", "FIL", 461)
      [] chain_type = "Mina"             -> ChainInfo("Mina", "MINA", 12586)
      [] chain_type = "InternetComputer" -> ChainInfo("Internet Computer", "ICP", 223)

get_all_chain_types ==
    <<"BitcoinLegacy", "BitcoinSegwit", "BitcoinTaproot", "Ethereum", "Ripple",
      "Solana", "Tron", "Sui", "Stellar", "Monero", "Near", "Ton", "Dogecoin",
      "Polkadot", "Cosmos", "Osmosis", "Juno", "Secret", "Akash", "Sei",
      "Celestia", "Injective", "Tezos", "Eos", "Hedera", "Filecoin", "Mina",
      "InternetComputer">>

\* str::to_uppercase on the symbols the model sends; upper-case and
\* non-alphabetic input is unchanged
to_uppercase(s) ==
    CASE s = "btc"  -> "BTC"
      [] s = "Btc"  -> "BTC"
      [] s = "eth"  -> "ETH"
      [] s = "sol"  -> "SOL"
      [] s = "matic" -> "MATIC"
      [] OTHER -> s

\* a registry that lists SegWit before Legacy
get_chain_types_by_symbol_wrong_order(symbol) ==
    LET u == to_uppercase(symbol)
    IN  CASE u = "BTC" -> <<"BitcoinSegwit", "BitcoinLegacy", "BitcoinTaproot">>
          [] u = "ETH" -> <<"Ethereum">>
          [] u = "SOL" -> <<"Solana">>
          [] OTHER -> <<>>

\* a registry that also answers to names that are not tickers
get_chain_types_by_symbol_lenient(symbol) ==
    LET u == to_uppercase(symbol)
    IN  CASE u = "BTC" -> <<"BitcoinLegacy", "BitcoinSegwit", "BitcoinTaproot">>
          [] u = "ETH" -> <<"Ethereum">>
          [] u = "SOL" -> <<"Solana">>
          [] u = "BITCOIN" -> <<"BitcoinLegacy">>
          [] OTHER -> <<>>

get_chain_types_by_symbol(symbol) ==
    LET u == to_uppercase(symbol)
    IN  CASE u = "BTC"  -> <<"BitcoinLegacy", "BitcoinSegwit", "BitcoinTaproot">>
          [] u = "ETH"  -> <<"Ethereum">>
          [] u = "XRP"  -> <<"Ripple">>
          [] u = "SOL"  -> <<"Solana">>
          [] u = "TRX"  -> <<"Tron">>
          [] u = "SUI"  -> <<"Sui">>
          [] u = "XLM"  -> <<"Stellar">>
          [] u = "XMR"  -> <<"Monero">>
          [] u = "NEAR" -> <<"Near">>
          [] u = "TON"  -> <<"Ton">>
          [] u = "DOGE" -> <<"Dogecoin">>
          [] u = "DOT"  -> <<"Polkadot">>
          [] u = "ATOM" -> <<"Cosmos">>
          [] u = "OSMO" -> <<"Osmosis">>
          [] u = "JUNO" -> <<"Juno">>
          [] u = "SCRT" -> <<"Secret">>
          [] u = "AKT"  -> <<"Akash">>
          [] u = "SEI"  -> <<"Sei">>
          [] u = "TIA"  -> <<"Celestia">>
          [] u = "INJ"  -> <<"Injective">>
          [] u = "XTZ"  -> <<"Tezos">>
          [] u = "EOS"  -> <<"Eos">>
          [] u = "HBAR" -> <<"Hedera">>
          [] u = "FIL"  -> <<"Filecoin">>
          [] u = "MINA" -> <<"Mina">>
          [] u = "ICP"  -> <<"InternetComputer">>
          [] OTHER -> <<>>

\* the tickers the registry knows
RegisteredTickers == {get_chain_info(c).symbol : c \in ChainType}

\* the list get_supported_wallet_types answers under "supported_symbols"
supported_symbols ==
    <<"BTC", "ETH", "XRP", "SOL", "TRX", "ADA", "SUI", "XLM", "XMR", "NEAR",
      "TON", "DOGE", "DOT", "ATOM", "OSMO", "JUNO", "SCRT", "AKT", "SEI", "TIA",
      "INJ", "XTZ", "ALGO", "EOS", "HBAR", "FIL", "MINA", "ICP">>

(***************************************************************************)
(* Derivation-path value type and its formatters (core/types.rs).          *)
(* A formatted path is the sequence of its tokens: "m", "/", a decimal     *)
(* number, "'".                                                            *)
(***************************************************************************)
DerivationPath(purpose, coin_type, account, change, index) ==
    [purpose |-> purpose, coin_type |-> coin_type, account |-> account,
     change |-> change, index |-> index]

Tok(t) == [t |-> t, n |-> Lit(0)]
Num(x) == [t |-> "num", n |-> x]

\* "/{}" or "/{}'"
Seg(x, hardened) ==
    <<Tok("/"), Num(x)>> \o (IF hardened THEN <<Tok("'")>> ELSE <<>>)

\* format!("m/{}'/{}'/{}'/{}/{}", ...)
to_string(p) ==
    <<Tok("m")>> \o Seg(p.purpose, TRUE) \o Seg(p.coin_type, TRUE)
        \o Seg(p.account, TRUE) \o Seg(p.change, FALSE) \o Seg(p.index, FALSE)

\* format!("m/{}'/{}'/{}'/{}'/{}'", ...)
to_string_all_hardened(p) ==
    <<Tok("m")>> \o Seg(p.purpose, TRUE) \o Seg(p.coin_type, TRUE)
        \o Seg(p.account, TRUE) \o Seg(p.change, TRUE) \o Seg(p.index, TRUE)

\* One child step of a derivation: the level's value and its hardened flag.
Step(value, hardened) == [value |-> value, hardened |-> hardened, ok |-> TRUE]

BadStep == [value |-> Lit(0), hardened |-> FALSE, ok |-> FALSE]

\* Reading a path string back: "m" then any number of "/" number ["'"].
RECURSIVE ParseSegs(_)
ParseSegs(toks) ==
    IF toks = <<>> THEN <<>>
    ELSE IF Len(toks) < 2 \/ toks[1].t # "/" \/ toks[2].t # "num"
         THEN <<BadStep>>
         ELSE LET h == Len(toks) >= 3 /\ toks[3].t = "'"
                  rest == SubSeq(toks, IF h THEN 4 ELSE 3, Len(toks))
              IN  <<Step(toks[2].n, h)>> \o ParseSegs(rest)

ParsePath(toks) ==
    IF toks = <<>> \/ toks[1].t # "m" THEN <<BadStep>>
    ELSE ParseSegs(Tail(toks))

\* A raw 32-bit child number as the step it denotes: the top bit is the
\* hardened flag, the low 31 bits the value.
StepOfRaw(x) == Step(Lit(x.lo), x.hi = 1)

(***************************************************************************)
(* Keys and encodings.  A key is what was derived from what; an address is *)
(* an encoding of the key's public key.                                    *)
(***************************************************************************)
Key(engine, seed, input) == [engine |-> engine, seed |-> seed, input |-> input]

PublicKey(key) == [pub_of |-> key]

Address(enc, key) == [enc |-> enc, pub_of |-> key]

\* bip39: Mnemonic::parse accepts phrases of the wordlist with a valid checksum
ValidMnemonics == {"abandon-about", "legal-winner"}

Mnemonics == ValidMnemonics \cup {"not a mnemonic"}

Passphrases == {"", "TREZOR"}

Mnemonic_parse(mnemonic_str) ==
    IF mnemonic_str \in ValidMnemonics THEN Ok(mnemonic_str) ELSE Err("parse")

\* PBKDF2-HMAC-SHA512(mnemonic, "mnemonic" + passphrase)
to_seed(mnemonic, passphrase) == [mnemonic |-> mnemonic, passphrase |-> passphrase]

\* ApiError values
InvalidMnemonic == [kind |-> "InvalidMnemonic"]
CryptoError == [kind |-> "CryptoError"]
BadRequest == [kind |-> "BadRequest"]
InvalidWordCount == [kind |-> "InvalidWordCount"]
InvalidLanguage == [kind |-> "InvalidLanguage"]
InvalidDerivationPath == [kind |-> "InvalidDerivationPath"]
InternalError == [kind |-> "InternalError"]

ApiError ==
    {InvalidWordCount, InvalidLanguage, InvalidMnemonic, InvalidDerivationPath,
     CryptoError, InternalError, BadRequest}

(***************************************************************************)
(* Mnemonics (services/wallet.rs, bip39)                                   *)
(***************************************************************************)
MaxRng == 1

\* the values rand::thread_rng can fill the entropy with
Rng == 0..MaxRng

\* str::to_lowercase on the language names the model sends
to_lowercase(s) ==
    CASE s = "English"  -> "english"
      [] s = "JAPANESE" -> "japanese"
      [] OTHER -> s

Language ==
    {"english", "japanese", "korean", "spanish", "chinese_simplified",
     "chinese_traditional", "french", "italian", "czech", "portuguese"}

parse_language(language) ==
    IF to_lowercase(language) \in Language THEN Ok(to_lowercase(language))
    ELSE Err(InvalidLanguage)

\* the random bytes drawn: how many, and which
Entropy(bytes, rng) == [bytes |-> bytes, rng |-> rng]

\* bip39: entropy of 128..256 bits in steps of 32; a word for every 11 bits
\* of entropy and checksum (one checksum bit per 32 bits of entropy)
from_entropy_in(language, entropy) ==
    LET bits == entropy.bytes * 8
    IN  IF bits % 32 # 0 \/ bits < 128 \/ bits > 256 THEN Err("BadEntropyBitCount")
        ELSE Ok([language |-> language, entropy |-> entropy,
                 word_count |-> (bits + (bits \div 32)) \div 11])

\* a generate_mnemonic that draws word_count * 11 / 8 bytes
generate_mnemonic_eleven_eighths(language_str, word_count, rng) ==
    LET language == parse_language(language_str)
        entropy_bytes == IF word_count \in {12, 15, 18, 21, 24}
                         THEN (word_count * 11) \div 8 ELSE 0
        mnemonic == from_entropy_in(language.val, Entropy(entropy_bytes, rng))
    IN  IF IsErr(language) THEN [result |-> language, sampled |-> 0]
        ELSE IF entropy_bytes = 0
             THEN [result |-> Err(InvalidWordCount), sampled |-> 0]
        ELSE IF IsErr(mnemonic)
             THEN [result |-> Err(CryptoError), sampled |-> entropy_bytes]
        ELSE [result |-> Ok(mnemonic.val), sampled |-> entropy_bytes]

\* WalletService::generate_mnemonic with the bytes thread_rng gives; beside
\* the result, the number of random bytes drawn
generate_mnemonic(language_str, word_count, rng) ==
    LET language == parse_language(language_str)
        entropy_bytes == CASE word_count = 12 -> 16
                           [] word_count = 15 -> 20
                           [] word_count = 18 -> 24
                           [] word_count = 21 -> 28
                           [] word_count = 24 -> 32
                           [] OTHER -> 0
        mnemonic == from_entropy_in(language.val, Entropy(entropy_bytes, rng))
    IN  IF IsErr(language) THEN [result |-> language, sampled |-> 0]
        ELSE IF entropy_bytes = 0
             THEN [result |-> Err(InvalidWordCount), sampled |-> 0]
        ELSE IF IsErr(mnemonic)
             THEN [result |-> Err(CryptoError), sampled |-> entropy_bytes]
        ELSE [result |-> Ok(mnemonic.val), sampled |-> entropy_bytes]

\* Mnemonic::parse_in_normalized: the phrases of the model are English ones
\* of twelve words
parse_in_normalized(language, mnemonic_str) ==
    IF language = "english" /\ mnemonic_str \in ValidMnemonics
    THEN Ok([language |-> language, phrase |-> mnemonic_str, word_count |-> 12])
    ELSE Err("parse")

\* WalletService::validate_mnemonic: (valid, word_count)
validate_mnemonic(mnemonic_str, language_str) ==
    LET language == parse_language(language_str)
    IN  IF IsErr(language) THEN <<FALSE, 0>>
        ELSE LET mnemonic == parse_in_normalized(language.val, mnemonic_str)
             IN  IF IsOk(mnemonic) THEN <<TRUE, mnemonic.val.word_count>>
                 ELSE <<FALSE, 0>>

\* ChildNumber::from_normal_idx / from_hardened_idx: Err when the index has
\* its top bit set
from_normal_idx(index) ==
    IF index.hi = 0 THEN Ok(U32(0, index.lo)) ELSE Err("InvalidChildNumber")

from_hardened_idx(index) ==
    IF index.hi = 0 THEN Ok(U32(1, index.lo)) ELSE Err("InvalidChildNumber")

\* Xpriv::derive_priv returns Err when a child's HMAC output is not a valid
\* tweak.  Which (seed, child) pairs do so is a property of the hash; the
\* model lets it happen at normal child 1 of one seed.
DerivePrivFails(seed, path) ==
    /\ seed = to_seed("legal-winner", "")
    /\ path[Len(path)] = U32(0, 1)

derive_priv(seed, path) ==
    IF DerivePrivFails(seed, path) THEN Err("bip32") ELSE Ok(Key("bip32", seed, path))

(***************************************************************************)
(* WalletService (services/wallet.rs)                                      *)
(***************************************************************************)
WalletAddress(address, address_type, derivation_path, index, key) ==
    [address |-> address, address_type |-> address_type,
     derivation_path |-> derivation_path, index |-> index,
     public_key |-> PublicKey(key), private_key |-> key]

\* The secp256k1 functions share one shape: master key, the path
\* purpose'/coin'/0'/0/index, derive_priv, encode.
generate_bip44(address_type, purpose, coin_type, enc, seed, index) ==
    LET normal == from_normal_idx(index)
    IN  IF IsErr(normal) THEN Panic        \* from_normal_idx(index).unwrap()
        ELSE LET path == <<from_hardened_idx(Lit(purpose)).val,
                           from_hardened_idx(Lit(coin_type)).val,
                           from_hardened_idx(Lit(0)).val,
                           from_normal_idx(Lit(0)).val,
                           normal.val>>
                 child == derive_priv(seed, path)
                 str == <<Tok("m")>> \o Seg(Lit(purpose), TRUE)
                            \o Seg(Lit(coin_type), TRUE) \o Seg(Lit(0), TRUE)
                            \o Seg(Lit(0), FALSE) \o Seg(index, FALSE)
             IN  IF IsErr(child) THEN Err(CryptoError)
                 ELSE Ok(WalletAddress(Address(enc, child.val), address_type,
                                       str, index, child.val))

generate_bitcoin_taproot(seed, index) ==
    generate_bip44("BitcoinTaproot", 86, 0, "p2tr", seed, index)

generate_bitcoin_segwit(seed, index) ==
    generate_bip44("BitcoinSegwit", 84, 0, "p2wpkh", seed, index)

generate_bitcoin_legacy(seed, index) ==
    generate_bip44("BitcoinLegacy", 44, 0, "p2pkh", seed, index)

generate_ethereum(seed, index) ==
    generate_bip44("Ethereum", 44, 60, "keccak-hex", seed, index)

generate_xrp(seed, index) ==
    generate_bip44("Xrp", 44, 144, "base58check-ripple", seed, index)

generate_tron(seed, index) ==
    generate_bip44("Tron", 44, 195, "base58check-0x41", seed, index)

\* SHA-512("ed25519 seed" || seed): the index is not hashed
generate_solana(seed, index) ==
    LET key == Key("sha512-ed25519-seed", seed, <<>>)
        str == <<Tok("m")>> \o Seg(Lit(44), TRUE) \o Seg(Lit(501), TRUE)
                   \o Seg(index, TRUE) \o Seg(Lit(0), TRUE)
    IN  Ok(WalletAddress(Address("base58", key), "Solana", str, index, key))

\* Blake2b-512(seed || index_le)
generate_cardano(seed, index) ==
    LET key == Key("blake2b512", seed, <<index>>)
        str == <<Tok("m")>> \o Seg(Lit(1852), TRUE) \o Seg(Lit(1815), TRUE)
                   \o Seg(Lit(0), TRUE) \o Seg(Lit(0), FALSE) \o Seg(index, FALSE)
    IN  Ok(WalletAddress(Address("bech32-addr", key), "Cardano", str, index, key))

\* SHA-512("ed25519 seed" || seed || index_le)
generate_sui(seed, index) ==
    LET key == Key("sha512-ed25519-seed", seed, <<index>>)
        str == <<Tok("m")>> \o Seg(Lit(44), TRUE) \o Seg(Lit(784), TRUE)
                   \o Seg(Lit(0), TRUE) \o Seg(Lit(0), TRUE) \o Seg(index, TRUE)
    IN  Ok(WalletAddress(Address("blake2s-hex", key), "Sui", str, index, key))

generate_stellar(seed, index) ==
    LET key == Key("sha512-ed25519-seed", seed, <<index>>)
        str == <<Tok("m")>> \o Seg(Lit(44), TRUE) \o Seg(Lit(148), TRUE)
                   \o Seg(index, TRUE)
    IN  Ok(WalletAddress(Address("strkey", key), "Stellar", str, index, key))

\* Keccak-256(seed || index_le)
generate_monero(seed, index) ==
    LET key == Key("keccak256", seed, <<index>>)
        str == <<Tok("m")>> \o Seg(Lit(44), TRUE) \o Seg(Lit(128), TRUE)
                   \o Seg(index, TRUE) \o Seg(Lit(0), FALSE) \o Seg(Lit(0), FALSE)
    IN  Ok(WalletAddress(Address("base58-monero", key), "Monero", str, index, key))

generate_near(seed, index) ==
    LET key == Key("sha512-ed25519-seed", seed, <<index>>)
        str == <<Tok("m")>> \o Seg(Lit(44), TRUE) \o Seg(Lit(397), TRUE)
                   \o Seg(Lit(0), TRUE) \o Seg(Lit(0), TRUE) \o Seg(index, TRUE)
    IN  Ok(WalletAddress(Address("hex", key), "Near", str, index, key))

\* the address types generate_wallet_address has an arm for
ServiceAddressTypes ==
    {"BitcoinTaproot", "BitcoinSegwit", "BitcoinLegacy", "Ethereum", "Xrp",
     "Solana", "Tron", "Cardano", "Sui", "Stellar", "Monero", "Near"}

\* a derivation that answers differently once a call has been made
generate_wallet_address_stateful(mnemonic_str, passphrase, address_type, index) ==
    IF last.fn = "none" THEN Err(InvalidMnemonic) ELSE Err(CryptoError)

generate_wallet_address(mnemonic_str, passphrase, address_type, index) ==
    LET mnemonic == Mnemonic_parse(mnemonic_str)
    IN  IF IsErr(mnemonic) THEN Err(InvalidMnemonic)
        ELSE LET seed == to_seed(mnemonic.val, passphrase)
             IN  CASE address_type = "BitcoinTaproot" -> generate_bitcoin_taproot(seed, index)
                   [] address_type = "BitcoinSegwit"  -> generate_bitcoin_segwit(seed, index)
                   [] address_type = "BitcoinLegacy"  -> generate_bitcoin_legacy(seed, index)
                   [] address_type = "Ethereum"       -> generate_ethereum(seed, index)
                   [] address_type = "Xrp"            -> generate_xrp(seed, index)
                   [] address_type = "Solana"         -> generate_solana(seed, index)
                   [] address_type = "Tron"           -> generate_tron(seed, index)
                   [] address_type = "Cardano"        -> generate_cardano(seed, index)
                   [] address_type = "Sui"            -> generate_sui(seed, index)
                   [] address_type = "Stellar"        -> generate_stellar(seed, index)
                   [] address_type = "Monero"         -> generate_monero(seed, index)
                   [] address_type = "Near"           -> generate_near(seed, index)

(***************************************************************************)
(* Chain drivers (chains/*.rs), reached through create_chain               *)
(***************************************************************************)
core_WalletAddress(address, chain_type, derivation_path, index, key) ==
    [address |-> address, chain_type |-> chain_type,
     chain_info |-> get_chain_info(chain_type),
     derivation_path |-> derivation_path, index |-> index,
     public_key |-> PublicKey(key), private_key |-> key]

Driver(driver, chain_type) == [driver |-> driver, chain_type |-> chain_type]

CosmosChains ==
    {"Cosmos", "Osmosis", "Juno", "Secret", "Akash", "Sei", "Celestia", "Injective"}

\* the chain types create_chain has an arm for
DriverChainTypes == ChainType \ {"Monero"}

\* what the match of create_chain has for a chain type without an arm
NoDriver == Driver("None", "None")

create_chain(chain_type) ==
    CASE chain_type \in CosmosChains -> Driver("CosmosChain", chain_type)
      [] chain_type \in DriverChainTypes \ CosmosChains -> Driver(chain_type, chain_type)
      [] OTHER -> NoDriver

\* the drivers that walk purpose'/coin'/account'/change/index with the bip32 crate
Bip32Drivers ==
    {"BitcoinLegacy", "BitcoinSegwit", "BitcoinTaproot", "Ethereum", "Ripple",
     "Tron", "Dogecoin", "CosmosChain", "Eos", "Filecoin"}

\* the drivers that chain SHA-512 over five all-hardened levels
Sha512Drivers == {"Near", "Ton", "Tezos", "Hedera"}

\* the drivers that hash the seed with the five little-endian path fields
HashDrivers == {"Polkadot", "Mina", "InternetComputer"}

\* a derivation_path with the Cosmos Hub coin type for every chain
derivation_path_all_118(chain, index) ==
    DerivationPath(Lit(44), Lit(118), Lit(0), Lit(0), index)

derivation_path(chain, index) ==
    LET P(purpose, coin_type) ==
            DerivationPath(Lit(purpose), Lit(coin_type), Lit(0), Lit(0), index)
        d == chain.driver
    IN  CASE d = "BitcoinLegacy"    -> P(44, 0)
          [] d = "BitcoinSegwit"    -> P(84, 0)
          [] d = "BitcoinTaproot"   -> P(86, 0)
          [] d = "Ethereum"         -> P(44, 60)
          [] d = "Ripple"           -> P(44, 144)
          [] d = "Tron"             -> P(44, 195)
          [] d = "Dogecoin"         -> P(44, 3)
          [] d = "CosmosChain"      -> P(44, get_chain_info(chain.chain_type).coin_type)
          [] d = "Eos"              -> P(44, 194)
          [] d = "Filecoin"         -> P(44, 461)
          [] d = "Near"             -> P(44, 397)
          [] d = "Ton"              -> P(44, 607)
          [] d = "Tezos"            -> P(44, 1729)
          [] d = "Hedera"           -> P(44, 3030)
          [] d = "Polkadot"         -> P(44, 354)
          [] d = "Mina"             -> P(44, 12586)
          [] d = "InternetComputer" -> P(44, 223)
          [] d = "Solana"  ->
                DerivationPath(Lit(44), Lit(501), index, Lit(0), Lit(0))
          [] d = "Stellar" ->
                DerivationPath(Lit(44), Lit(148), index, Lit(0), Lit(0))
          [] d = "Sui"     ->
                DerivationPath(Lit(44), Lit(784), Lit(0), Lit(0), Lit(0))

\* `0x80000000 + x` on u32: overflows when x has its top bit set
AddHardenedBit(x) ==
    IF x.hi = 0 THEN Ok(U32(1, x.lo))
    ELSE IF build = "debug" THEN Panic ELSE Ok(U32(0, x.lo))

\* a vec![0x80000000 + a, ...]: panics if one of the sums does
HardenedIndices(fields) ==
    LET sums == [k \in 1..Len(fields) |-> AddHardenedBit(fields[k])]
    IN  IF \E k \in 1..Len(fields) : IsPanic(sums[k]) THEN Panic
        ELSE Ok([k \in 1..Len(fields) |-> sums[k].val])

\* bitcoin.rs, ethereum.rs, ripple.rs, tron.rs, dogecoin.rs, cosmos.rs, eos.rs,
\* filecoin.rs
bip32_generate_address(chain, seed, index) ==
    LET path == derivation_path(chain, index)
        children == <<from_hardened_idx(path.purpose),
                      from_hardened_idx(path.coin_type),
                      from_hardened_idx(path.account),
                      from_normal_idx(path.change),
                      from_normal_idx(path.index)>>
    IN  IF \E k \in 1..5 : IsErr(children[k]) THEN Panic      \* .unwrap()
        ELSE LET child == derive_priv(seed, [k \in 1..5 |-> children[k].val])
             IN  IF IsErr(child) THEN Err(CryptoError)
                 ELSE Ok(core_WalletAddress(Address(chain.driver, child.val),
                                            chain.chain_type, to_string(path),
                                            index, child.val))

\* near.rs, ton.rs, tezos.rs, hedera.rs
sha512_generate_address(chain, seed, index) ==
    LET path == derivation_path(chain, index)
        indices == HardenedIndices(<<path.purpose, path.coin_type, path.account,
                                     path.change, path.index>>)
    IN  IF IsPanic(indices) THEN Panic
        ELSE LET key == Key("sha512-chain", seed, indices.val)
             IN  Ok(core_WalletAddress(Address(chain.driver, key), chain.chain_type,
                                       to_string_all_hardened(path), index, key))

\* stellar.rs: three levels derived, five printed
stellar_generate_address(chain, seed, index) ==
    LET path == derivation_path(chain, index)
        indices == HardenedIndices(<<path.purpose, path.coin_type, path.account>>)
    IN  IF IsPanic(indices) THEN Panic
        ELSE LET key == Key("sha512-chain", seed, indices.val)
             IN  Ok(core_WalletAddress(Address(chain.driver, key), chain.chain_type,
                                       to_string_all_hardened(path), index, key))

\* solana.rs: HMAC-SHA512 over 44'/501'/index'
solana_generate_address(chain, seed, index) ==
    LET indices == HardenedIndices(<<Lit(44), Lit(501), index>>)
    IN  IF IsPanic(indices) THEN Panic
        ELSE LET key == Key("hmac-sha512-chain", seed, indices.val)
                 str == <<Tok("m")>> \o Seg(Lit(44), TRUE) \o Seg(Lit(501), TRUE)
                            \o Seg(index, TRUE)
             IN  Ok(core_WalletAddress(Address(chain.driver, key), chain.chain_type,
                                       str, index, key))

\* sui.rs: the fixed path 44'/784'/0'/0'/0', whatever the index
sui_generate_address(chain, seed, index) ==
    LET path == derivation_path(chain, index)
        indices == HardenedIndices(<<Lit(44), Lit(784), Lit(0), Lit(0), Lit(0)>>)
        key == Key("hmac-sha512-chain", seed, indices.val)
    IN  Ok(core_WalletAddress(Address(chain.driver, key), chain.chain_type,
                              to_string_all_hardened(path), index, key))

\* polkadot.rs, mina.rs, icp.rs: one hash of seed || the five fields
hash_generate_address(chain, seed, index) ==
    LET path == derivation_path(chain, index)
        key == Key("hash-of-fields", seed,
                   <<path.purpose, path.coin_type, path.account, path.change,
                     path.index>>)
    IN  Ok(core_WalletAddress(Address(chain.driver, key), chain.chain_type,
                              to_string(path), index, key))

\* Chain::generate_address, by driver
generate_address(chain, seed, index) ==
    CASE chain.driver \in Bip32Drivers  -> bip32_generate_address(chain, seed, index)
      [] chain.driver \in Sha512Drivers -> sha512_generate_address(chain, seed, index)
      [] chain.driver \in HashDrivers   -> hash_generate_address(chain, seed, index)
      [] chain.driver = "Stellar"       -> stellar_generate_address(chain, seed, index)
      [] chain.driver = "Solana"        -> solana_generate_address(chain, seed, index)
      [] chain.driver = "Sui"           -> sui_generate_address(chain, seed, index)

(***************************************************************************)
(* Address strings and Chain::validate_address.  A string is described by  *)
(* what the validators look at: its prefix, its length, the alphabet of    *)
(* its characters, the number of bytes it decodes to, the checksum it      *)
(* carries, and whether it still is the string the encoder emitted.        *)
(***************************************************************************)
Text(prefix, len, alphabet, bytes, check) ==
    [prefix |-> prefix, len |-> len, alphabet |-> alphabet, bytes |-> bytes,
     check |-> check, intact |-> TRUE]

\* AddressFormat::Bech32 { hrp } of the registry
hrp(chain_type) ==
    CASE chain_type = "Cosmos"    -> "cosmos"
      [] chain_type = "Osmosis"   -> "osmo"
      [] chain_type = "Juno"      -> "juno"
      [] chain_type = "Secret"    -> "secret"
      [] chain_type = "Akash"     -> "akash"
      [] chain_type = "Sei"       -> "sei"
      [] chain_type = "Celestia"  -> "celestia"
      [] chain_type = "Injective" -> "inj"

\* hrp, the separator, 32 characters for 20 bytes, 6 of checksum
bech32_len(h) ==
    39 + (CASE h = "cosmos" -> 6 [] h = "osmo" -> 4 [] h = "juno" -> 4
            [] h = "secret" -> 6 [] h = "akash" -> 5 [] h = "sei" -> 3
            [] h = "celestia" -> 8 [] h = "inj" -> 3)

\* The address string of a record a driver returned.  A base58 string of a
\* fixed number of bytes has one of two lengths, by the value encoded.
AddressText(wallet, long) ==
    LET d == wallet.address.enc
        n(short) == IF long THEN short + 1 ELSE short
    IN  CASE d = "BitcoinLegacy"  -> Text("1", n(33), "base58", 25, "sha256d")
          [] d = "BitcoinSegwit"  -> Text("bc1q", 42, "bech32", 20, "bech32")
          [] d = "BitcoinTaproot" -> Text("bc1p", 62, "bech32", 32, "bech32m")
          [] d = "Ethereum"       -> Text("0x", 42, "hex", 20, "eip55")
          [] d = "Ripple"         -> Text("r", n(33), "base58", 25, "sha256d")
          [] d = "Solana"         -> Text("", n(43), "base58", 32, "none")
          [] d = "Tron"           -> Text("T", 34, "base58", 25, "sha256d")
          [] d = "Sui"            -> Text("0x", 66, "hex", 32, "none")
          [] d = "Stellar"        -> Text("G", 56, "base32", 35, "crc16")
          [] d = "Near"           -> Text("", 64, "hex", 32, "none")
          [] d = "Ton"            -> Text("EQ", 49, "base64url", 35, "crc16")
          [] d = "Dogecoin"       -> Text("D", 34, "base58", 25, "sha256d")
          [] d = "Polkadot"       -> Text("1", n(47), "base58", 35, "ss58")
          [] d = "CosmosChain"    ->
                Text(hrp(wallet.chain_type), bech32_len(hrp(wallet.chain_type)),
                     "bech32", 20, "bech32")
          [] d = "Tezos"          -> Text("tz1", 36, "base58", 27, "sha256d")
          [] d = "Eos"            -> Text("EOS", 53, "base58", 37, "ripemd160")
          [] d = "Hedera"         -> Text("0.0.", 20, "hex", 8, "none")
          [] d = "Filecoin"       -> Text("f1", 41, "base32-lower", 24, "blake2b")
          [] d = "Mina"           -> Text("B62", n(30), "base58", 20, "none")
          [] d = "InternetComputer" ->
                Text("", 62, "base32-lower-dashed", 32, "crc32")

\* one character, not of the prefix, replaced by another one
Edits == {"none", "in_alphabet", "out_of_alphabet"}

Edit(text, how) ==
    CASE how = "none" -> text
      [] how = "in_alphabet" -> [text EXCEPT !.intact = FALSE]
      [] how = "out_of_alphabet" ->
            [text EXCEPT !.intact = FALSE, !.alphabet = "other"]

\* bitcoin::Address::from_str and require_network: a mainnet Base58Check or
\* Bech32 / Bech32m address with a good checksum
Address_from_str(text) ==
    /\ text.intact
    /\ \/ text.alphabet = "base58" /\ text.check = "sha256d" /\ text.bytes = 25
          /\ text.prefix = "1"
       \/ text.alphabet = "bech32" /\ text.check \in {"bech32", "bech32m"}
          /\ text.prefix \in {"bc1q", "bc1p"}

\* decode, then compare the trailing checksum with the recomputed one
checksum_ok(text, alphabet, check) ==
    text.alphabet = alphabet /\ text.check = check /\ text.intact

\* Chain::validate_address, by driver
validate_address(chain, text) ==
    LET d == chain.driver
    IN  CASE d = "BitcoinLegacy"  -> Address_from_str(text) /\ text.prefix = "1"
          [] d = "BitcoinSegwit"  -> Address_from_str(text) /\ text.prefix = "bc1q"
          [] d = "BitcoinTaproot" -> Address_from_str(text) /\ text.prefix = "bc1p"
          [] d = "Ethereum" ->
                text.prefix = "0x" /\ text.len = 42 /\ text.alphabet = "hex"
          [] d = "Ripple" ->
                /\ text.prefix = "r" /\ text.len >= 25 /\ text.len <= 34
                /\ text.bytes >= 25
                /\ checksum_ok(text, "base58", "sha256d")
          [] d = "Solana" -> text.alphabet = "base58" /\ text.bytes = 32
          [] d = "Tron" ->
                /\ text.prefix = "T" /\ text.len = 34 /\ text.bytes = 25
                /\ checksum_ok(text, "base58", "sha256d")
          [] d = "Sui" ->
                text.prefix = "0x" /\ text.len = 66 /\ text.alphabet = "hex"
          [] d = "Stellar" ->
                text.prefix = "G" /\ text.len = 56 /\ text.alphabet = "base32"
          [] d = "Near" -> text.len = 64 /\ text.alphabet = "hex"
          [] d = "Ton" ->
                text.prefix = "EQ" /\ text.len >= 48 /\ text.alphabet = "base64url"
          [] d = "Dogecoin" ->
                /\ text.prefix = "D" /\ text.len = 34 /\ text.bytes = 25
                /\ checksum_ok(text, "base58", "sha256d")
          [] d = "Polkadot" ->
                /\ text.prefix = "1" /\ text.len >= 46 /\ text.len <= 48
                /\ text.bytes >= 35
                /\ checksum_ok(text, "base58", "ss58")
          [] d = "CosmosChain" ->
                /\ checksum_ok(text, "bech32", "bech32")
                /\ text.prefix = hrp(chain.chain_type)
          [] d = "Tezos" ->
                /\ text.prefix = "tz1" /\ text.len = 36 /\ text.bytes = 27
                /\ checksum_ok(text, "base58", "sha256d")
          [] d = "Eos" ->
                text.prefix = "EOS" /\ text.len = 53 /\ text.alphabet = "base58"
          [] d = "Hedera" -> text.prefix = "0.0." /\ text.len > 4
          [] d = "Filecoin" ->
                /\ text.prefix = "f1" /\ text.len >= 10
                /\ text.alphabet = "base32-lower"
          [] d = "Mina" ->
                /\ text.prefix = "B62" /\ text.len >= 50 /\ text.len <= 60
                /\ text.alphabet = "base58"
          [] d = "InternetComputer" ->
                text.len <= 65 /\ text.alphabet = "base32-lower-dashed"

(***************************************************************************)
(* WalletService::batch_generate_wallet_addresses.  The loops are carried  *)
(* by an accumulator: the records pushed so far, the derivations called so *)
(* far, and how the function left early, if it did.                        *)
(***************************************************************************)
NoExit == [tag |-> "None"]

Acc(addresses, called, exit) ==
    [addresses |-> addresses, calls |-> called, exit |-> exit]

Call(address_type, index) == [address_type |-> address_type, index |-> index]

\* the number of values of the range i..end: none when end <= i
RangeLen(i, end) ==
    IF ~U32Lt(i, end) THEN 0
    ELSE IF i.hi = end.hi THEN end.lo - i.lo
         ELSE end.lo + (Max31 - i.lo) + 1

\* a loop that goes on after a failed derivation and returns the rest
index_loop_skip_failed(mnemonic_str, passphrase, address_type, i, end, acc) ==
    LET n == RangeLen(i, end)
        at(k) == U32Add(i, k - 1).val
        run(wallet) ==
            Acc(acc.addresses
                    \o SelectSeq([k \in 1..n |-> wallet[k]], IsOk),
                acc.calls \o [k \in 1..n |-> Call(address_type, at(k))],
                NoExit)
    IN  run([k \in 1..n |->
                generate_wallet_address(mnemonic_str, passphrase, address_type,
                                        at(k))])

\* for i in i..end { let wallet = generate_wallet_address(..)?; push }
\* The iterations are laid out side by side: the loop leaves at the first
\* one whose derivation is not Ok, having pushed the ones before it.
index_loop(mnemonic_str, passphrase, address_type, i, end, acc) ==
    LET n == RangeLen(i, end)
        at(k) == U32Add(i, k - 1).val
        run(wallet) ==
            LET failed == {k \in 1..n : ~IsOk(wallet[k])}
                stop == IF failed = {} THEN n
                        ELSE CHOOSE k \in failed : \A j \in failed : k <= j
                pushed == IF failed = {} THEN n ELSE stop - 1
            IN  Acc(acc.addresses \o [k \in 1..pushed |-> wallet[k].val],
                    acc.calls \o [k \in 1..stop |-> Call(address_type, at(k))],
                    IF failed = {} THEN NoExit ELSE wallet[stop])
    IN  run([k \in 1..n |->
                generate_wallet_address(mnemonic_str, passphrase, address_type,
                                        at(k))])

\* for address_type in address_types { for i in start..(start + count) .. }
RECURSIVE chain_loop(_, _, _, _, _, _)
chain_loop(mnemonic_str, passphrase, address_types, start_index, count, acc) ==
    IF address_types = <<>> \/ acc.exit.tag # "None" THEN acc
    ELSE LET end == CheckedAdd(start_index, count)
         IN  IF IsPanic(end) THEN Acc(acc.addresses, acc.calls, Panic)
             ELSE chain_loop(mnemonic_str, passphrase, Tail(address_types),
                             start_index, count,
                             index_loop(mnemonic_str, passphrase,
                                        Head(address_types), start_index,
                                        end.val, acc))

\* the returned value and, beside it, the derivations that were called
batch_generate_wallet_addresses(mnemonic_str, passphrase, address_types, start_index, count) ==
    LET returned(acc) ==
            [result |-> IF acc.exit.tag = "None" THEN Ok(acc.addresses)
                        ELSE acc.exit,
             calls |-> acc.calls]
    IN  returned(chain_loop(mnemonic_str, passphrase, address_types, start_index,
                            count, Acc(<<>>, <<>>, NoExit)))

(***************************************************************************)
(* Authentication (middleware/auth.rs, grpc/auth.rs)                       *)
(***************************************************************************)
NoKey == "<none>"

\* ApiKeyAuth::call: the x-api-key header must equal API_KEY
http_auth(expected_api_key, x_api_key) ==
    x_api_key # NoKey /\ x_api_key = expected_api_key

\* a check that is content with any key that is presented
check_auth_any_key(expected_key, api_key) == api_key # NoKey

\* check_auth: a key that equals API_KEY, and API_KEY not empty
check_auth(expected_key, api_key) ==
    api_key # NoKey /\ api_key = expected_key /\ expected_key # ""

(***************************************************************************)
(* Responses (errors.rs, api/handlers.rs, grpc/wallet.rs)                  *)
(***************************************************************************)
\* a mapping that blames the client for a failed cryptographic operation
status_code_all_400(e) == "400"

status_code(e) ==
    CASE e.kind \in {"InvalidWordCount", "InvalidLanguage", "InvalidMnemonic",
                     "InvalidDerivationPath", "BadRequest"} -> "400"
      [] e.kind \in {"CryptoError", "InternalError"} -> "500"

error_type(e) ==
    CASE e.kind = "InvalidWordCount"      -> "INVALID_WORD_COUNT"
      [] e.kind = "InvalidLanguage"       -> "INVALID_LANGUAGE"
      [] e.kind = "InvalidMnemonic"       -> "INVALID_MNEMONIC"
      [] e.kind = "InvalidDerivationPath" -> "INVALID_DERIVATION_PATH"
      [] e.kind = "BadRequest"            -> "BAD_REQUEST"
      [] e.kind = "CryptoError"           -> "CRYPTO_ERROR"
      [] e.kind = "InternalError"         -> "INTERNAL_ERROR"

Response(tag, status, error, shape, body) ==
    [tag |-> tag, status |-> status, error |-> error, shape |-> shape, body |-> body]

\* ResponseError for ApiError
error_response(e) == Response("Err", status_code(e), error_type(e), "error", <<>>)

\* StatusCode::as_u16
as_u16(status) ==
    CASE status = "200" -> 200
      [] status = "400" -> 400
      [] status = "401" -> 401
      [] status = "500" -> 500

\* the "error" object of the JSON body of error_response
error_envelope(e) ==
    [code |-> as_u16(status_code(e)), type |-> error_type(e)]

\* the 401 of the middleware
Unauthorized == Response("Err", "401", "authentication_error", "error", <<>>)

\* tonic::Status
Status_unauthenticated == Response("Err", "unauthenticated", "", "error", <<>>)
Status_invalid_argument == Response("Err", "invalid_argument", "", "error", <<>>)
Status_internal(e) == Response("Err", "internal", error_type(e), "error", <<>>)

\* a handler that panicked answers nothing
NoAnswer == Response("Panic", "", "", "none", <<>>)

NoResp == Response("None", "", "", "none", <<>>)

\* 200 / Ok(Response): one record, or the list of them
OkSingle(wallet) == Response("Ok", "200", "", "single", <<wallet>>)
OkList(ws) == Response("Ok", "200", "", "array", ws)

\* 200 / Ok(Response) of the endpoints that derive nothing
OkHealth == Response("Ok", "200", "", "health", <<>>)
OkLanguages == Response("Ok", "200", "", "languages", <<>>)
OkMnemonic(mnemonic) == Response("Ok", "200", "", "mnemonic", <<mnemonic>>)
OkValidation(valid) == Response("Ok", "200", "", "validation", <<valid>>)

(***************************************************************************)
(* Handlers (api/handlers.rs, grpc/wallet.rs).  A handler runs in three    *)
(* steps: everything before `wallet_service.lock().await`, the lock, and   *)
(* the service call with the response built from it; the guard is dropped  *)
(* when the handler returns.                                               *)
(***************************************************************************)
Clients == {"http", "grpc"}

Free == "free"

NoReq == [op |-> "none"]

\* a count check without the upper limit
invalid_count_no_limit(count) == count = 0

\* if req.count == 0 || req.count > 100
invalid_count(count) == count = 0 \/ count > 100

Resolved(chain_types, looked_up, unsupported) ==
    [chain_types |-> chain_types, lookups |-> looked_up, unsupported |-> unsupported]

\* a resolution that drops the symbols it does not know
RECURSIVE resolve_symbols_skip_unknown(_, _)
resolve_symbols_skip_unknown(symbols, acc) ==
    IF symbols = <<>> THEN acc
    ELSE resolve_symbols_skip_unknown(
             Tail(symbols),
             Resolved(acc.chain_types \o get_chain_types_by_symbol(Head(symbols)),
                      acc.lookups + 1, FALSE))

\* for symbol in &req.symbols { .. if chain_types.is_empty() { return Err }
\*                              all_chain_types.extend(chain_types) }
RECURSIVE resolve_symbols(_, _)
resolve_symbols(symbols, acc) ==
    IF symbols = <<>> THEN acc
    ELSE LET chain_types == get_chain_types_by_symbol(Head(symbols))
         IN  IF chain_types = <<>>
             THEN Resolved(acc.chain_types, acc.lookups + 1, TRUE)
             ELSE resolve_symbols(Tail(symbols),
                                  Resolved(acc.chain_types \o chain_types,
                                           acc.lookups + 1, FALSE))

\* the per-chain loop of generate_wallet
RECURSIVE generate_loop(_, _, _, _, _)
generate_loop(mnemonic_str, passphrase, chain_types, index, acc) ==
    IF chain_types = <<>> THEN acc
    ELSE LET called == Append(acc.calls, Call(Head(chain_types), index))
             push(wallet) ==
                 IF IsOk(wallet)
                 THEN generate_loop(mnemonic_str, passphrase, Tail(chain_types),
                                    index,
                                    Acc(Append(acc.addresses, wallet.val), called,
                                        NoExit))
                 ELSE Acc(acc.addresses, called, wallet)
         IN  push(generate_wallet_address(mnemonic_str, passphrase,
                                          Head(chain_types), index))

\* check_auth reads the key from the first of the metadata entries x-api-key,
\* api-key, api_key, apikey that is present
metadata_key(r) == IF r.x_api_key # NoKey THEN r.x_api_key ELSE r.api_key

authenticated(c, r) ==
    IF c = "http" THEN http_auth(API_KEY, r.x_api_key)
    ELSE check_auth(API_KEY, metadata_key(r))

unauthenticated(c) ==
    IF c = "http" THEN Unauthorized ELSE Status_unauthenticated

bad_request(c) ==
    IF c = "http" THEN error_response(BadRequest) ELSE Status_invalid_argument

\* `?` in the HTTP handlers, map_err(Status::internal) in the gRPC ones
service_error(c, e) ==
    IF c = "http" THEN error_response(e) ELSE Status_internal(e)

\* leaves the handler before the lock with response r
Reject(c, r, looked_up) ==
    /\ pc' = [pc EXCEPT ![c] = "done"]
    /\ resp' = [resp EXCEPT ![c] = r]
    /\ lookups' = [lookups EXCEPT ![c] = looked_up]
    /\ UNCHANGED chains

\* reaches `wallet_service.lock().await`
Proceed(c, chain_types, looked_up) ==
    /\ pc' = [pc EXCEPT ![c] = "lock"]
    /\ chains' = [chains EXCEPT ![c] = chain_types]
    /\ lookups' = [lookups EXCEPT ![c] = looked_up]
    /\ UNCHANGED resp

Receive(c, r) ==
    /\ pc[c] = "idle"
    /\ pc' = [pc EXCEPT ![c] = "received"]
    /\ req' = [req EXCEPT ![c] = r]
    /\ UNCHANGED <<build, API_KEY, chains, resp, mutex, lookups, calls, locked,
                   arg, last, prev>>

\* generate_wallet up to the lock
BeginGenerate(c) ==
    /\ pc[c] = "received"
    /\ req[c].op = "generate"
    /\ IF ~authenticated(c, req[c]) THEN Reject(c, unauthenticated(c), 0)
       ELSE LET chain_types == get_chain_types_by_symbol(req[c].symbols[1])
            IN  IF chain_types = <<>> THEN Reject(c, bad_request(c), 1)
                ELSE Proceed(c, chain_types, 1)
    /\ UNCHANGED <<build, API_KEY, req, mutex, calls, locked, arg, last, prev>>

\* batch_generate_wallets up to the lock
BeginBatch(c) ==
    /\ pc[c] = "received"
    /\ req[c].op = "batch"
    /\ IF ~authenticated(c, req[c]) THEN Reject(c, unauthenticated(c), 0)
       ELSE IF invalid_count(req[c].count) THEN Reject(c, bad_request(c), 0)
       ELSE IF req[c].symbols = <<>> THEN Reject(c, bad_request(c), 0)
       ELSE LET continue(all) ==
                    IF all.unsupported THEN Reject(c, bad_request(c), all.lookups)
                    ELSE Proceed(c, all.chain_types, all.lookups)
            IN  continue(resolve_symbols(req[c].symbols, Resolved(<<>>, 0, FALSE)))
    /\ UNCHANGED <<build, API_KEY, req, mutex, calls, locked, arg, last, prev>>

\* a lock that is granted while another request holds it
Lock_no_wait(c) ==
    /\ pc[c] = "lock"
    /\ mutex' = c
    /\ locked' = [locked EXCEPT ![c] = TRUE]
    /\ pc' = [pc EXCEPT ![c] = "service"]
    /\ UNCHANGED <<build, API_KEY, req, chains, resp, lookups, calls, arg, last, prev>>

\* wallet_service.lock().await
Lock(c) ==
    /\ pc[c] = "lock"
    /\ mutex = Free
    /\ mutex' = c
    /\ locked' = [locked EXCEPT ![c] = TRUE]
    /\ pc' = [pc EXCEPT ![c] = "service"]
    /\ UNCHANGED <<build, API_KEY, req, chains, resp, lookups, calls, arg, last, prev>>

\* a handler's end that keeps the guard
Finish_keeps_guard(c, r, called) ==
    /\ resp' = [resp EXCEPT ![c] = r]
    /\ calls' = [calls EXCEPT ![c] = called]
    /\ pc' = [pc EXCEPT ![c] = "done"]
    /\ UNCHANGED <<build, API_KEY, req, chains, lookups, locked, arg, last, prev,
                   mutex>>

\* the handler's end: the response is built and the guard dropped
Finish(c, r, called) ==
    /\ resp' = [resp EXCEPT ![c] = r]
    /\ calls' = [calls EXCEPT ![c] = called]
    /\ mutex' = Free
    /\ pc' = [pc EXCEPT ![c] = "done"]
    /\ UNCHANGED <<build, API_KEY, req, chains, lookups, locked, arg, last, prev>>

\* generate_wallet under the lock
ServeGenerate(c) ==
    /\ pc[c] = "service"
    /\ req[c].op = "generate"
    /\ LET answer(acc) ==
               Finish(c,
                      CASE IsPanic(acc.exit) -> NoAnswer
                        [] IsErr(acc.exit) -> service_error(c, acc.exit.err)
                        [] OTHER -> IF Len(acc.addresses) = 1
                                    THEN OkSingle(acc.addresses[1])
                                    ELSE OkList(acc.addresses),
                      acc.calls)
       IN  answer(generate_loop(req[c].mnemonic, req[c].passphrase, chains[c],
                                req[c].index, Acc(<<>>, <<>>, NoExit)))

\* batch_generate_wallets under the lock
ServeBatch(c) ==
    /\ pc[c] = "service"
    /\ req[c].op = "batch"
    /\ LET answer(out) ==
               Finish(c,
                      CASE IsPanic(out.result) -> NoAnswer
                        [] IsErr(out.result) -> service_error(c, out.result.err)
                        [] OTHER -> OkList(out.result.val),
                      out.calls)
       IN  answer(batch_generate_wallet_addresses(req[c].mnemonic,
                                                  req[c].passphrase, chains[c],
                                                  req[c].index, req[c].count))

\* GenerateMnemonicRequest::validate / MnemonicServiceImpl::validate_request
validate(language, word_count) ==
    /\ to_lowercase(language) \in Language
    /\ word_count \in {12, 15, 18, 21, 24}

\* health_check: no key is asked for
HealthCheck(c) ==
    /\ pc[c] = "received"
    /\ req[c].op = "health"
    /\ Reject(c, OkHealth, 0)
    /\ UNCHANGED <<build, API_KEY, req, mutex, calls, locked, arg, last, prev>>

\* get_supported_languages
GetLanguages(c) ==
    /\ pc[c] = "received"
    /\ req[c].op = "languages"
    /\ IF ~authenticated(c, req[c]) THEN Reject(c, unauthenticated(c), 0)
       ELSE Reject(c, OkLanguages, 0)
    /\ UNCHANGED <<build, API_KEY, req, mutex, calls, locked, arg, last, prev>>

\* generate_mnemonic up to the lock
BeginMnemonic(c) ==
    /\ pc[c] = "received"
    /\ req[c].op = "mnemonic"
    /\ IF ~authenticated(c, req[c]) THEN Reject(c, unauthenticated(c), 0)
       ELSE IF ~validate(req[c].language, req[c].word_count)
            THEN Reject(c, bad_request(c), 0)
       ELSE Proceed(c, <<>>, 0)
    /\ UNCHANGED <<build, API_KEY, req, mutex, calls, locked, arg, last, prev>>

\* generate_mnemonic under the lock
ServeMnemonic(c) ==
    /\ pc[c] = "service"
    /\ req[c].op = "mnemonic"
    /\ \E rng \in Rng :
          LET answer(out) ==
                  Finish(c,
                         IF IsErr(out.result) THEN service_error(c, out.result.err)
                         ELSE OkMnemonic(out.result.val),
                         <<>>)
          IN  answer(generate_mnemonic(req[c].language, req[c].word_count, rng))

\* validate_mnemonic up to the lock
BeginValidate(c) ==
    /\ pc[c] = "received"
    /\ req[c].op = "validate"
    /\ IF ~authenticated(c, req[c]) THEN Reject(c, unauthenticated(c), 0)
       ELSE Proceed(c, <<>>, 0)
    /\ UNCHANGED <<build, API_KEY, req, mutex, calls, locked, arg, last, prev>>

\* validate_mnemonic under the lock
ServeValidate(c) ==
    /\ pc[c] = "service"
    /\ req[c].op = "validate"
    /\ Finish(c, OkValidation(validate_mnemonic(req[c].mnemonic, req[c].language)),
              <<>>)

\* the response has been sent; the task ends
Return(c) ==
    /\ pc[c] = "done"
    /\ pc' = [pc EXCEPT ![c] = "idle"]
    /\ req' = [req EXCEPT ![c] = NoReq]
    /\ chains' = [chains EXCEPT ![c] = <<>>]
    /\ resp' = [resp EXCEPT ![c] = NoResp]
    /\ lookups' = [lookups EXCEPT ![c] = 0]
    /\ calls' = [calls EXCEPT ![c] = <<>>]
    /\ locked' = [locked EXCEPT ![c] = FALSE]
    /\ UNCHANGED <<build, API_KEY, mutex, arg, last, prev>>

(***************************************************************************)
(* The requests sent to the server                                         *)
(***************************************************************************)
MaxIndex == 1
MaxCount == 2
MaxSymbols == 2

\* the largest count batch_generate_wallets accepts
CountLimit == 100

\* small indices, and the indices around 2^31 and 2^32
Indices == {Lit(i) : i \in 0..MaxIndex} \cup {U32(0, Max31), U32(1, 0), U32Max}

\* symbols whose chains WalletService::generate_wallet_address has an arm for,
\* and one symbol that is not registered
Symbols == {"BTC", "ETH", "SOL", "XYZ"}

SymbolLists == UNION {[1..n -> Symbols] : n \in 0..MaxSymbols}

ApiKeys == {"secret", ""}

Request(op, x_api_key, mnemonic, passphrase, symbols, index, count) ==
    [op |-> op, x_api_key |-> x_api_key, api_key |-> NoKey,
     mnemonic |-> mnemonic, passphrase |-> passphrase, symbols |-> symbols,
     index |-> index, count |-> count, language |-> "", word_count |-> 0]

GenerateRequests ==
    {Request("generate", "secret", m, p, <<s>>, i, 1) :
        m \in Mnemonics, p \in Passphrases, s \in Symbols \cup {"btc"}, i \in Indices}

BatchRequests ==
    {Request("batch", "secret", m, p, l, i, n) :
        m \in Mnemonics, p \in Passphrases, l \in SymbolLists, i \in Indices,
        n \in 0..MaxCount}

\* counts at the limit and just above it
LimitRequests ==
    {Request("batch", "secret", "abandon-about", "", l, Lit(0), n) :
        l \in {q \in SymbolLists : Len(q) <= 1},
        n \in {CountLimit, CountLimit + 1}}

\* requests with a missing, an empty and a wrong key
KeyRequests ==
    {Request(op, k, "abandon-about", "", <<"BTC">>, Lit(0), n) :
        op \in {"generate", "batch"}, k \in {NoKey, "", "wrong"}, n \in {0, 1}}

\* gRPC metadata that carries a key under another name than x-api-key
AliasRequests ==
    {[Request(op, k, "abandon-about", "", <<"BTC">>, Lit(0), 1)
         EXCEPT !.api_key = a] :
        op \in {"generate", "batch", "languages"}, k \in {NoKey, "wrong"},
        a \in {"secret", "wrong"}}

HealthRequests ==
    {Request(op, k, "", "", <<>>, Lit(0), 0) :
        op \in {"health", "languages"}, k \in {NoKey, "secret", "wrong"}}

MnemonicRequests ==
    {[Request("mnemonic", k, "", "", <<>>, Lit(0), 0)
         EXCEPT !.language = l, !.word_count = n] :
        k \in {NoKey, "secret"}, l \in {"english", "English", "klingon"},
        n \in {0, 11, 12, 15, 18, 21, 24, 25}}

ValidateRequests ==
    {[Request("validate", k, m, "", <<>>, Lit(0), 0) EXCEPT !.language = l] :
        k \in {NoKey, "secret"}, m \in Mnemonics,
        l \in {"english", "JAPANESE", "klingon"}}

Requests ==
    GenerateRequests \cup BatchRequests \cup LimitRequests \cup KeyRequests
        \cup AliasRequests \cup HealthRequests \cup MnemonicRequests
        \cup ValidateRequests

NoArg == [kind |-> "none"]

NoCall == [fn |-> "none", result |-> NoExit, calls |-> <<>>]

Idle ==
    /\ pc = [c \in Clients |-> "idle"]
    /\ req = [c \in Clients |-> NoReq]
    /\ chains = [c \in Clients |-> <<>>]
    /\ resp = [c \in Clients |-> NoResp]
    /\ mutex = Free
    /\ lookups = [c \in Clients |-> 0]
    /\ calls = [c \in Clients |-> <<>>]
    /\ locked = [c \in Clients |-> FALSE]

Init ==
    /\ build \in {"debug", "release"}
    /\ API_KEY \in ApiKeys
    /\ Idle
    /\ arg = NoArg
    /\ last = NoCall
    /\ prev = NoCall

\* one request at a time
Next ==
    \E c \in Clients :
        \/ (\A d \in Clients : pc[d] = "idle") /\ \E r \in Requests : Receive(c, r)
        \/ BeginGenerate(c)
        \/ BeginBatch(c)
        \/ Lock(c)
        \/ ServeGenerate(c)
        \/ ServeBatch(c)
        \/ HealthCheck(c)
        \/ GetLanguages(c)
        \/ BeginMnemonic(c)
        \/ ServeMnemonic(c)
        \/ BeginValidate(c)
        \/ ServeValidate(c)
        \/ Return(c)

Spec == Init /\ [][Next]_vars

(***************************************************************************)
(* Requests in flight at the same time.  The HTTP and the gRPC server run  *)
(* side by side on one Arc<Mutex<WalletService>>; a handler that panics    *)
(* unwinds and drops its guard.                                            *)
(***************************************************************************)
ConcRequests ==
    {Request("generate", k, m, "", <<"BTC">>, Lit(0), 1) :
        k \in {"secret", "wrong"}, m \in {"abandon-about", "not a mnemonic"}}
    \cup {Request("generate", "secret", "abandon-about", "", <<"BTC">>, U32(1, 0), 1),
          Request("batch", "secret", "legal-winner", "", <<"ETH">>, Lit(0), 2),
          Request("batch", "secret", "legal-winner", "", <<"SOL">>, U32Max, 1)}
    \cup {[Request("mnemonic", "secret", "", "", <<>>, Lit(0), 0)
              EXCEPT !.language = "english", !.word_count = 12],
          [Request("validate", "secret", "abandon-about", "", <<>>, Lit(0), 0)
              EXCEPT !.language = "english"],
          Request("languages", "secret", "", "", <<>>, Lit(0), 0),
          Request("health", NoKey, "", "", <<>>, Lit(0), 0)}

NextConc ==
    \E c \in Clients :
        \/ \E r \in ConcRequests : Receive(c, r)
        \/ BeginGenerate(c)
        \/ BeginBatch(c)
        \/ Lock(c)
        \/ ServeGenerate(c)
        \/ ServeBatch(c)
        \/ HealthCheck(c)
        \/ GetLanguages(c)
        \/ BeginMnemonic(c)
        \/ ServeMnemonic(c)
        \/ BeginValidate(c)
        \/ ServeValidate(c)
        \/ Return(c)

SpecConc == Init /\ [][NextConc]_vars

\* The runtime polls every task that can run, and tokio's Mutex hands the
\* lock to its waiters in the order they came: a handler that waits for the
\* lock gets it once it has been free often enough.
Poll(c) ==
    \/ BeginGenerate(c) \/ BeginBatch(c) \/ BeginMnemonic(c) \/ BeginValidate(c)
    \/ HealthCheck(c) \/ GetLanguages(c)
    \/ ServeGenerate(c) \/ ServeBatch(c) \/ ServeMnemonic(c) \/ ServeValidate(c)

Scheduling == \A c \in Clients : WF_vars(Poll(c)) /\ SF_vars(Lock(c))

\* one request of every endpoint, and the requests that fail under the lock
LiveRequests ==
    {r \in ConcRequests :
        /\ r.x_api_key # "wrong"
        /\ r.op = "batch" => r.symbols = <<"ETH">>}

NextLive ==
    \E c \in Clients :
        \/ \E r \in LiveRequests : Receive(c, r)
        \/ Poll(c)
        \/ Lock(c)
        \/ Return(c)

SpecLive == Init /\ [][NextLive]_vars /\ Scheduling

\* The responses a request can get from its handler when no other request
\* is in flight: the handler's steps taken one after the other.
Alone(c, r) ==
    LET served(acc) ==
            CASE IsPanic(acc.exit) -> NoAnswer
              [] IsErr(acc.exit) -> service_error(c, acc.exit.err)
              [] OTHER -> IF Len(acc.addresses) = 1 THEN OkSingle(acc.addresses[1])
                          ELSE OkList(acc.addresses)
        batched(out) ==
            CASE IsPanic(out.result) -> NoAnswer
              [] IsErr(out.result) -> service_error(c, out.result.err)
              [] OTHER -> OkList(out.result.val)
        minted(out) ==
            IF IsErr(out.result) THEN service_error(c, out.result.err)
            ELSE OkMnemonic(out.result.val)
    IN  IF r.op = "health" THEN {OkHealth}
        ELSE IF ~authenticated(c, r) THEN {unauthenticated(c)}
        ELSE CASE r.op = "languages" -> {OkLanguages}
               [] r.op = "generate" ->
                     LET chain_types == get_chain_types_by_symbol(r.symbols[1])
                     IN  IF chain_types = <<>> THEN {bad_request(c)}
                         ELSE {served(generate_loop(r.mnemonic, r.passphrase,
                                                    chain_types, r.index,
                                                    Acc(<<>>, <<>>, NoExit)))}
               [] r.op = "batch" ->
                     IF invalid_count(r.count) \/ r.symbols = <<>>
                     THEN {bad_request(c)}
                     ELSE LET all == resolve_symbols(r.symbols,
                                                     Resolved(<<>>, 0, FALSE))
                          IN  IF all.unsupported THEN {bad_request(c)}
                              ELSE {batched(batch_generate_wallet_addresses(
                                                r.mnemonic, r.passphrase,
                                                all.chain_types, r.index,
                                                r.count))}
               [] r.op = "mnemonic" ->
                     IF ~validate(r.language, r.word_count) THEN {bad_request(c)}
                     ELSE {minted(generate_mnemonic(r.language, r.word_count, rng)) :
                              rng \in Rng}
               [] r.op = "validate" ->
                     {OkValidation(validate_mnemonic(r.mnemonic, r.language))}

(***************************************************************************)
(* EIP-55 (chains/ethereum.rs, chains/evm.rs).  A string is the sequence   *)
(* of the ASCII codes of its characters.                                   *)
(***************************************************************************)
MaxAddressBytes == 2

\* hex::encode: two lower-case digits for each byte
hex_digit(n) == IF n < 10 THEN 48 + n ELSE 87 + n

hex_encode(bytes) ==
    [i \in 1..(2 * Len(bytes)) |->
        IF i % 2 = 1 THEN hex_digit(bytes[(i + 1) \div 2] \div 16)
        ELSE hex_digit(bytes[i \div 2] % 16)]

is_alphabetic(ch) == ch \in 65..90 \/ ch \in 97..122

to_ascii_uppercase(ch) == IF ch \in 97..122 THEN ch - 32 ELSE ch

to_ascii_lowercase(ch) == IF ch \in 65..90 THEN ch + 32 ELSE ch

\* u8::from_str_radix(s, 16) of a string of one character
from_str_radix_16(ch) ==
    CASE ch \in 48..57  -> ch - 48
      [] ch \in 97..102 -> ch - 87
      [] ch \in 65..70  -> ch - 55

\* an encoder that upper-cases a letter only above the character '8'
Ethereum_to_checksum_address_above_8(address_bytes, hash) ==
    LET address_hex == hex_encode(address_bytes)
        hash_hex == hex_encode(hash)
    IN  <<48, 120>> \o
        [i \in 1..Len(address_hex) |->
            IF is_alphabetic(address_hex[i])
            THEN IF hash_hex[i] > 56 THEN to_ascii_uppercase(address_hex[i])
                 ELSE to_ascii_lowercase(address_hex[i])
            ELSE address_hex[i]]

\* Ethereum::to_checksum_address; hash is the Keccak-256 digest of
\* address_hex, and the character of hash_hex is compared with b'8' = 56
Ethereum_to_checksum_address(address_bytes, hash) ==
    LET address_hex == hex_encode(address_bytes)
        hash_hex == hex_encode(hash)
    IN  <<48, 120>> \o
        [i \in 1..Len(address_hex) |->
            IF is_alphabetic(address_hex[i])
            THEN IF hash_hex[i] >= 56 THEN to_ascii_uppercase(address_hex[i])
                 ELSE to_ascii_lowercase(address_hex[i])
            ELSE address_hex[i]]

\* EvmChain::to_checksum_address; the character of hash_hex is parsed as a
\* hexadecimal digit and compared with 8
EvmChain_to_checksum_address(address_bytes, hash) ==
    LET address_hex == hex_encode(address_bytes)
        hash_hex == hex_encode(hash)
    IN  <<48, 120>> \o
        [i \in 1..Len(address_hex) |->
            IF is_alphabetic(address_hex[i])
            THEN IF from_str_radix_16(hash_hex[i]) >= 8
                 THEN to_ascii_uppercase(address_hex[i])
                 ELSE address_hex[i]
            ELSE address_hex[i]]

(***************************************************************************)
(* Base32 (chains/stellar.rs, chains/algorand.rs).  value is a u32 and     *)
(* keeps its width; bits counts the bits of it not yet written.            *)
(***************************************************************************)
MaxBytes == 36

\* b"ABCDEFGHIJKLMNOPQRSTUVWXYZ234567"[index]
CHARSET(index) == IF index < 26 THEN 65 + index ELSE 24 + index

\* (value << 8) | byte on u32: the top eight bits are shifted out
shl8_or(value, byte) ==
    U32((value.lo \div 8388608) % 2, (value.lo % 8388608) * 256 + byte)

\* while bits >= 5 { push CHARSET[(value >> (bits - 5)) & 0x1F]; bits -= 5 }
RECURSIVE base32_while(_, _)
base32_while(value, bits) ==
    IF bits >= 5
    THEN <<CHARSET((value.lo \div (2 ^ (bits - 5))) % 32)>>
             \o base32_while(value, bits - 5)
    ELSE <<>>

\* the loop over data from byte i on, and the last character for the bits
\* that are left; the while loop leaves bits % 5 bits
RECURSIVE base32_for(_, _, _, _)
base32_for(data, i, value, bits) ==
    IF i > Len(data)
    THEN IF bits > 0
         THEN <<CHARSET(((value.lo % 32) * (2 ^ (5 - bits))) % 32)>>
         ELSE <<>>
    ELSE LET shifted == shl8_or(value, data[i])
         IN  base32_while(shifted, bits + 8)
                 \o base32_for(data, i + 1, shifted, (bits + 8) % 5)

\* an encoder that fills the last group of eight characters with '='
Stellar_base32_encode_padded(data) ==
    LET text == base32_for(data, 1, Lit(0), 0)
    IN  text \o [i \in 1..((8 - (Len(text) % 8)) % 8) |-> 61]

\* Stellar::base32_encode
Stellar_base32_encode(data) == base32_for(data, 1, Lit(0), 0)

\* Algorand::base32_encode_no_pad, the same loop
Algorand_base32_encode_no_pad(data) == base32_for(data, 1, Lit(0), 0)

\* the payload Stellar::generate_address encodes: the version byte 6 << 3,
\* the public key, the CRC16 in little-endian order
Stellar_payload(public_key, checksum) == <<6 * 8>> \o public_key \o checksum

(***************************************************************************)
(* Direct calls of the functions.  The input is drawn when the behaviour   *)
(* starts; every action applies one function to it and records the call.   *)
(***************************************************************************)
MaxTypes == 2
MaxWordCount == 25

\* registered and advertised tickers, spellings in other cases, other names
FnSymbols ==
    RegisteredTickers
        \cup {supported_symbols[i] : i \in DOMAIN supported_symbols}
        \cup {"btc", "Btc", "eth", "sol", "matic", "MATIC", "XYZ", "BITCOIN", ""}

TypeLists ==
    UNION {[1..n -> {"BitcoinLegacy", "Solana", "Stellar"}] : n \in 0..MaxTypes}

Arg(kind, symbol, mnemonic, passphrase, address_types, index, count) ==
    [kind |-> kind, symbol |-> symbol, mnemonic |-> mnemonic,
     passphrase |-> passphrase, address_types |-> address_types,
     index |-> index, count |-> count]

SymbolArgs == {Arg("symbol", s, "", "", <<>>, Lit(0), 0) : s \in FnSymbols}

ChainArgs ==
    {Arg("chain", "", m, p, <<t>>, i, 1) :
        m \in Mnemonics, p \in Passphrases,
        t \in ChainType \cup ServiceAddressTypes, i \in Indices}

BatchArgs ==
    {Arg("batch", "", m, p, l, i, n) :
        m \in Mnemonics, p \in Passphrases, l \in TypeLists, i \in Indices,
        n \in 0..(MaxCount + 1)}

ErrorArgs == {[kind |-> "error", error |-> e] : e \in ApiError}

MnemonicArgs ==
    {[kind |-> "mnemonic", language |-> l, word_count |-> n] :
        l \in {"english", "English", "klingon"}, n \in 0..MaxWordCount}

\* address bytes with digits and letters in their hex form: 1a f9 bc 35; the
\* bytes of a digest with the digits 7, 8, 9 and letters: 78 9a f0 87
ChecksumArgs ==
    {[kind |-> "checksum", address_bytes |-> a, hash |-> h] :
        a \in [1..MaxAddressBytes -> {26, 249, 188, 53}],
        h \in [1..MaxAddressBytes -> {120, 154, 240, 135}]}

\* byte strings of every length up to MaxBytes in which two bytes alternate,
\* and Stellar payloads for such keys and checksums
Base32Args ==
    {[kind |-> "bytes", data |-> [i \in 1..n |-> IF i % 2 = 1 THEN a ELSE b]] :
        n \in 0..MaxBytes, a \in {0, 90, 165, 255}, b \in {0, 90, 165, 255}}
    \cup {[kind |-> "bytes",
           data |-> Stellar_payload([i \in 1..32 |-> IF i % 2 = 1 THEN a ELSE b],
                                    <<c, a>>)] :
             a \in {0, 90, 165, 255}, b \in {0, 90, 165, 255}, c \in {0, 255}}

Args ==
    SymbolArgs \cup ChainArgs \cup BatchArgs \cup ErrorArgs \cup MnemonicArgs
        \cup ChecksumArgs \cup Base32Args

CallOf(fn, result, called) == [fn |-> fn, result |-> result, calls |-> called]

\* the call becomes the latest one; the one before it is kept or replaced
Record(call) ==
    /\ last' = call
    /\ prev' = prev \/ prev' = last
    /\ UNCHANGED <<build, API_KEY, arg>>
    /\ UNCHANGED srvVars

CallLookup ==
    /\ arg.kind = "symbol"
    /\ Record(CallOf("get_chain_types_by_symbol",
                     get_chain_types_by_symbol(arg.symbol), <<>>))

CallService ==
    /\ arg.kind = "chain"
    /\ arg.address_types[1] \in ServiceAddressTypes
    /\ Record(CallOf("generate_wallet_address",
                     generate_wallet_address(arg.mnemonic, arg.passphrase,
                                             arg.address_types[1], arg.index),
                     <<>>))

\* the drivers take the seed of a parsed mnemonic
CallDriver ==
    /\ arg.kind = "chain"
    /\ arg.address_types[1] \in DriverChainTypes
    /\ arg.mnemonic \in ValidMnemonics
    /\ Record(CallOf("generate_address",
                     generate_address(create_chain(arg.address_types[1]),
                                      to_seed(arg.mnemonic, arg.passphrase),
                                      arg.index),
                     <<>>))

CallBatch ==
    /\ arg.kind = "batch"
    /\ LET record(out) ==
               Record(CallOf("batch_generate_wallet_addresses", out.result,
                             out.calls))
       IN  record(batch_generate_wallet_addresses(arg.mnemonic, arg.passphrase,
                                                  arg.address_types, arg.index,
                                                  arg.count))

CallErrorResponse ==
    /\ arg.kind = "error"
    /\ Record(CallOf("error_response",
                     [response |-> error_response(arg.error),
                      envelope |-> error_envelope(arg.error)],
                     <<>>))

CallMnemonic ==
    /\ arg.kind = "mnemonic"
    /\ \E rng \in Rng :
          Record(CallOf("generate_mnemonic",
                        generate_mnemonic(arg.language, arg.word_count, rng),
                        <<>>))

\* validate_address on the address a driver has just generated, as it
\* is or with one character changed
CallValidate ==
    /\ arg.kind = "chain"
    /\ arg.address_types[1] \in DriverChainTypes
    /\ arg.mnemonic \in ValidMnemonics
    /\ \E long \in BOOLEAN, how \in Edits :
          LET chain == create_chain(arg.address_types[1])
              validated(wallet) ==
                  /\ IsOk(wallet)
                  /\ Record(CallOf("validate_address",
                                   [valid |-> validate_address(
                                                  chain,
                                                  Edit(AddressText(wallet.val, long),
                                                       how)),
                                    edit |-> how,
                                    wallet |-> wallet.val],
                                   <<>>))
          IN  validated(generate_address(chain,
                                         to_seed(arg.mnemonic, arg.passphrase),
                                         arg.index))

\* the two to_checksum_address on the same bytes
CallChecksum ==
    /\ arg.kind = "checksum"
    /\ Record(CallOf("to_checksum_address",
                     [ethereum |-> Ethereum_to_checksum_address(
                                       arg.address_bytes, arg.hash),
                      evm |-> EvmChain_to_checksum_address(
                                  arg.address_bytes, arg.hash)],
                     <<>>))

\* the two base32 encoders on the same bytes
CallBase32 ==
    /\ arg.kind = "bytes"
    /\ Record(CallOf("base32_encode",
                     [stellar |-> Stellar_base32_encode(arg.data),
                      algorand |-> Algorand_base32_encode_no_pad(arg.data)],
                     <<>>))

InitFn ==
    /\ build \in {"debug", "release"}
    /\ API_KEY = "secret"
    /\ Idle
    /\ arg \in Args
    /\ last = NoCall
    /\ prev = NoCall

NextFn ==
    \/ CallLookup
    \/ CallService
    \/ CallDriver
    \/ CallBatch
    \/ CallErrorResponse
    \/ CallMnemonic
    \/ CallValidate
    \/ CallChecksum
    \/ CallBase32

SpecFn == InitFn /\ [][NextFn]_vars

(***************************************************************************)
(* Properties                                                              *)
(***************************************************************************)

\* C1: a batch that returns, returns exactly len(chain_types) * count
\* records in chain-major order: record k (from 0) has the chain type
\* chain_types[k div count] and the index start_index + (k mod count).
C1_BatchChainMajor ==
    (last.fn = "batch_generate_wallet_addresses" /\ IsOk(last.result)) =>
        LET records == last.result.val
        IN  /\ Len(records) = Len(arg.address_types) * arg.count
            /\ \A k \in 0..(Len(records) - 1) :
                  /\ records[k + 1].address_type =
                         arg.address_types[(k \div arg.count) + 1]
                  /\ records[k + 1].index = U32Add(arg.index, k % arg.count).val

\* C2: /wallet/batch with symbols ["BTC", "ETH"], start_index 0 and count 2
\* answers with exactly the eight records Legacy 0, Legacy 1, SegWit 0,
\* SegWit 1, Taproot 0, Taproot 1, Ethereum 0, Ethereum 1, in that order.
C2_BatchBtcEth ==
    \A c \in Clients :
        ( /\ pc[c] = "done"
          /\ req[c].op = "batch"
          /\ req[c].symbols = <<"BTC", "ETH">>
          /\ req[c].index = Lit(0)
          /\ req[c].count = 2
          /\ resp[c].tag = "Ok" ) =>
            [k \in 1..Len(resp[c].body) |->
                <<resp[c].body[k].address_type, resp[c].body[k].index>>]
            = << <<"BitcoinLegacy", Lit(0)>>, <<"BitcoinLegacy", Lit(1)>>,
                 <<"BitcoinSegwit", Lit(0)>>, <<"BitcoinSegwit", Lit(1)>>,
                 <<"BitcoinTaproot", Lit(0)>>, <<"BitcoinTaproot", Lit(1)>>,
                 <<"Ethereum", Lit(0)>>, <<"Ethereum", Lit(1)>> >>

C2_Answered ==
    \E c \in Clients :
        /\ pc[c] = "done"
        /\ req[c].op = "batch"
        /\ req[c].symbols = <<"BTC", "ETH">>
        /\ req[c].index = Lit(0)
        /\ req[c].count = 2
        /\ resp[c].tag = "Ok"
        /\ Len(resp[c].body) = 8

\* C3, as stated: the symbol "BTC" gives [Legacy, SegWit, Taproot], and every
\* string that is not one of the registered tickers gives the empty list.
C3_ExactTickers ==
    last.fn = "get_chain_types_by_symbol" =>
        /\ arg.symbol = "BTC" =>
               last.result = <<"BitcoinLegacy", "BitcoinSegwit", "BitcoinTaproot">>
        /\ arg.symbol \notin RegisteredTickers => last.result = <<>>

\* C3, amended: tickers are matched without regard to case.  Every spelling
\* of BTC gives [Legacy, SegWit, Taproot], and every symbol whose upper-case
\* form is not a registered ticker gives the empty list.
C3_TickersAnyCase ==
    last.fn = "get_chain_types_by_symbol" =>
        /\ to_uppercase(arg.symbol) = "BTC" =>
               last.result = <<"BitcoinLegacy", "BitcoinSegwit", "BitcoinTaproot">>
        /\ to_uppercase(arg.symbol) \notin RegisteredTickers => last.result = <<>>

C3_LowerCaseBtc ==
    /\ last.fn = "get_chain_types_by_symbol"
    /\ arg.symbol = "btc"
    /\ Len(last.result) = 3

\* C4: the symbol ETH expands to the four chains [Ethereum, Base, Arbitrum,
\* Optimism].
C4_EthExpansion ==
    (last.fn = "get_chain_types_by_symbol" /\ to_uppercase(arg.symbol) = "ETH") =>
        last.result = <<"Ethereum", "Base", "Arbitrum", "Optimism">>

\* C5: an authenticated batch request whose count is 0 or at least 101 is
\* answered BAD_REQUEST (400 over HTTP, invalid_argument over gRPC) with no
\* symbol looked up, the lock never taken and no derivation called; a batch
\* request that reaches the lock has 1 <= count <= 100.
C5_CountBounds ==
    \A c \in Clients :
        req[c].op = "batch" =>
            /\ ( /\ pc[c] = "done"
                 /\ resp[c].status \notin {"401", "unauthenticated"}
                 /\ (req[c].count = 0 \/ req[c].count >= 101) ) =>
                   /\ c = "http" =>
                          resp[c].status = "400" /\ resp[c].error = "BAD_REQUEST"
                   /\ c = "grpc" => resp[c].status = "invalid_argument"
                   /\ lookups[c] = 0
                   /\ ~locked[c]
                   /\ calls[c] = <<>>
            /\ (pc[c] \in {"lock", "service"} \/ locked[c]) =>
                   (1 <= req[c].count /\ req[c].count <= 100)

C5_RejectedAboveLimit ==
    \E c \in Clients :
        /\ pc[c] = "done"
        /\ req[c].op = "batch"
        /\ req[c].count = CountLimit + 1
        /\ req[c].symbols = <<"BTC">>
        /\ resp[c].status \in {"400", "invalid_argument"}

\* C6: an authenticated request that names a symbol which is not a ticker of
\* the registry (in any case) is answered BAD_REQUEST and calls no
\* derivation: the one symbol of /wallet/generate, or any symbol of the list
\* of /wallet/batch, whatever stands before it.
C6_UnknownSymbol ==
    \A c \in Clients :
        ( /\ pc[c] = "done"
          /\ resp[c].status \notin {"401", "unauthenticated"}
          /\ \E k \in 1..Len(req[c].symbols) :
                to_uppercase(req[c].symbols[k]) \notin RegisteredTickers ) =>
            /\ c = "http" => resp[c].status = "400" /\ resp[c].error = "BAD_REQUEST"
            /\ c = "grpc" => resp[c].status = "invalid_argument"
            /\ resp[c].body = <<>>
            /\ calls[c] = <<>>
            /\ ~locked[c]

C6_UnknownAfterKnown ==
    \E c \in Clients :
        /\ pc[c] = "done"
        /\ req[c].op = "batch"
        /\ req[c].symbols = <<"BTC", "XYZ">>
        /\ req[c].count = 1
        /\ lookups[c] = 2
        /\ resp[c].status \in {"400", "invalid_argument"}

C9_DistinctIndices ==
    /\ (last.fn = "generate_wallet_address" /\ IsOk(last.result)) =>
           \A j \in Indices \ {arg.index} :
               LET differs(other) ==
                       IsOk(other) =>
                           /\ other.val.address # last.result.val.address
                           /\ other.val.private_key # last.result.val.private_key
               IN  differs(generate_wallet_address(arg.mnemonic, arg.passphrase,
                                                   arg.address_types[1], j))
    /\ (last.fn = "generate_address" /\ IsOk(last.result)) =>
           \A j \in Indices \ {arg.index} :
               LET differs(other) ==
                       IsOk(other) =>
                           /\ other.val.address # last.result.val.address
                           /\ other.val.private_key # last.result.val.private_key
               IN  differs(generate_address(create_chain(arg.address_types[1]),
                                            to_seed(arg.mnemonic, arg.passphrase), j))

\* C10: for an index below 2^31, the derivation_path string of a driver that
\* derives by child steps reads back as exactly the steps the key was derived
\* through: as many levels, the same values, the same hardening.
C10_PathReadsBack ==
    ( /\ last.fn = "generate_address"
      /\ IsOk(last.result)
      /\ arg.index.hi = 0
      /\ last.result.val.private_key.engine # "hash-of-fields" ) =>
        LET used == last.result.val.private_key.input
        IN  ParsePath(last.result.val.derivation_path)
                = [k \in 1..Len(used) |-> StepOfRaw(used[k])]

\* C11: every chain type of the registry (get_all_chain_types, and so every
\* chain a symbol expands to) has a driver in create_chain, and a record
\* made by that driver carries the chain type and its registry entry.
C11_EveryChainHasDriver ==
    ( /\ arg.kind = "chain"
      /\ \E k \in 1..Len(get_all_chain_types) :
             get_all_chain_types[k] = arg.address_types[1] ) =>
        /\ create_chain(arg.address_types[1]) # NoDriver
        /\ (last.fn = "generate_address" /\ IsOk(last.result)) =>
               /\ last.result.val.chain_type = arg.address_types[1]
               /\ last.result.val.chain_info = get_chain_info(arg.address_types[1])

\* C12: an answered /wallet/generate derives one record per chain of the
\* symbol's expansion, in expansion order and all at the requested index;
\* it answers a single record for one chain and the array of records for
\* more; and its derivations and outcome are those of
\* batch_generate_wallet_addresses over the expansion with start_index =
\* index and count = 1.
C12_GenerateIsBatchOfOne ==
    \A c \in Clients :
        (pc[c] = "done" /\ req[c].op = "generate" /\ locked[c]) =>
            LET r == req[c]
                same(batch) ==
                    /\ calls[c] = batch.calls
                    /\ resp[c].tag = batch.result.tag
                    /\ resp[c].tag = "Ok" => resp[c].body = batch.result.val
            IN  /\ chains[c] = get_chain_types_by_symbol(r.symbols[1])
                /\ resp[c].tag = "Ok" =>
                       /\ Len(resp[c].body) = Len(chains[c])
                       /\ \A k \in 1..Len(chains[c]) :
                              /\ resp[c].body[k].address_type = chains[c][k]
                              /\ resp[c].body[k].index = r.index
                       /\ resp[c].shape =
                              IF Len(chains[c]) = 1 THEN "single" ELSE "array"
                /\ same(batch_generate_wallet_addresses(r.mnemonic, r.passphrase,
                                                        chains[c], r.index, 1))

\* C13, as stated: a finished request to an endpoint other than /health
\* whose x-api-key header is missing or differs from API_KEY was answered
\* 401 / unauthenticated and nothing of its handler ran; /health is answered
\* whatever the key.
C13_KeyInHeader ==
    \A c \in Clients :
        pc[c] = "done" =>
            /\ (req[c].op # "health" /\ req[c].x_api_key # API_KEY) =>
                   /\ resp[c] = unauthenticated(c)
                   /\ lookups[c] = 0
                   /\ ~locked[c]
                   /\ calls[c] = <<>>
            /\ req[c].op = "health" => resp[c] = OkHealth

\* C13, amended: the key that counts is the x-api-key header over HTTP and,
\* over gRPC, the first present of the metadata entries x-api-key, api-key,
\* api_key, apikey.  A finished request to an endpoint other than /health
\* that presents no key or another key than API_KEY was answered 401 /
\* unauthenticated and nothing of its handler ran; /health is answered
\* whatever the key.
C13_KeyPresented ==
    \A c \in Clients :
        pc[c] = "done" =>
            LET key == IF c = "http" THEN req[c].x_api_key
                       ELSE metadata_key(req[c])
            IN  /\ (req[c].op # "health" /\ key # API_KEY) =>
                       /\ resp[c] = unauthenticated(c)
                       /\ lookups[c] = 0
                       /\ ~locked[c]
                       /\ calls[c] = <<>>
                /\ req[c].op = "health" => resp[c] = OkHealth

C13_WrongKeyRejected ==
    /\ pc["grpc"] = "done"
    /\ req["grpc"].op = "generate"
    /\ req["grpc"].x_api_key = NoKey
    /\ req["grpc"].api_key = "wrong"
    /\ API_KEY = "secret"
    /\ resp["grpc"] = Status_unauthenticated

\* C14: every ApiError has its fixed HTTP status and type tag, 400 for the
\* five request errors and 500 for CryptoError and InternalError, and the
\* code of the error envelope is the number of the HTTP status.
C14_ErrorTable ==
    last.fn = "error_response" =>
        LET e == arg.error
            r == last.result.response
            expected ==
                CASE e = InvalidWordCount      -> <<"400", "INVALID_WORD_COUNT">>
                  [] e = InvalidLanguage       -> <<"400", "INVALID_LANGUAGE">>
                  [] e = InvalidMnemonic       -> <<"400", "INVALID_MNEMONIC">>
                  [] e = InvalidDerivationPath -> <<"400", "INVALID_DERIVATION_PATH">>
                  [] e = BadRequest            -> <<"400", "BAD_REQUEST">>
                  [] e = CryptoError           -> <<"500", "CRYPTO_ERROR">>
                  [] e = InternalError         -> <<"500", "INTERNAL_ERROR">>
        IN  /\ <<r.status, r.error>> = expected
            /\ last.result.envelope.type = r.error
            /\ last.result.envelope.code = IF r.status = "400" THEN 400 ELSE 500

C14_CryptoErrorAnswered ==
    /\ last.fn = "error_response"
    /\ arg.error = CryptoError
    /\ last.result.envelope.code = 500

\* C15: an authenticated request that fails validation is answered with a
\* client error that carries its own type tag: INVALID_WORD_COUNT for a word
\* count outside {12, 15, 18, 21, 24}, INVALID_LANGUAGE for an unsupported
\* language with a supported count, INVALID_MNEMONIC for a wallet request
\* whose mnemonic does not parse.
C15_SpecificClientErrors ==
    \A c \in Clients :
        (pc[c] = "done" /\ resp[c] # unauthenticated(c)) =>
            LET r == req[c]
                client_error(tag) ==
                    /\ resp[c].tag = "Err"
                    /\ resp[c].status \in {"400", "invalid_argument"}
                    /\ resp[c].error = tag
            IN  /\ (r.op = "mnemonic" /\ r.word_count \notin {12, 15, 18, 21, 24}) =>
                       client_error("INVALID_WORD_COUNT")
                /\ ( /\ r.op = "mnemonic"
                     /\ r.word_count \in {12, 15, 18, 21, 24}
                     /\ to_lowercase(r.language) \notin Language ) =>
                       client_error("INVALID_LANGUAGE")
                /\ ( /\ r.op \in {"generate", "batch"}
                     /\ locked[c]
                     /\ r.mnemonic \notin ValidMnemonics
                     /\ resp[c].tag # "Panic"
                     /\ calls[c] # <<>> ) =>
                       client_error("INVALID_MNEMONIC")

\* C16: validate_address of a chain accepts the address generate_address of
\* that chain has just produced.
C16_GeneratedIsValid ==
    (last.fn = "validate_address" /\ last.result.edit = "none") =>
        last.result.valid

\* C17: for a chain whose address carries a checksum, the generated address
\* with one character changed is not accepted by validate_address.
C17_OneCharacterChanged ==
    ( /\ last.fn = "validate_address"
      /\ last.result.edit # "none"
      /\ last.result.wallet.chain_type \in
             {"BitcoinLegacy", "Dogecoin", "Tron", "Ripple", "Tezos",
              "BitcoinSegwit", "BitcoinTaproot", "Ethereum", "Stellar",
              "Filecoin", "Polkadot"} \cup CosmosChains ) =>
        ~last.result.valid

\* C18: a key the SLIP-0010 Ed25519 engine has produced was derived through
\* hardened steps only: every child number of the derivation has its high
\* bit set, and a derivation with a child number without it gives no key.
C18_OnlyHardenedSteps ==
    ( /\ last.fn = "generate_address"
      /\ IsOk(last.result)
      /\ last.result.val.private_key.engine = "hmac-sha512-chain" ) =>
        \A k \in DOMAIN last.result.val.private_key.input :
            last.result.val.private_key.input[k].hi = 1

\* C19: with a supported language, generate_mnemonic for a word count n of
\* 12, 15, 18, 21 or 24 draws n * 4 / 3 random bytes, that is 128, 160, 192,
\* 224 and 256 bits, and returns a phrase of n words; for every other word
\* count, and for an unsupported language, it draws nothing and fails.
C19_EntropyBits ==
    last.fn = "generate_mnemonic" =>
        IF IsOk(parse_language(arg.language))
           /\ arg.word_count \in {12, 15, 18, 21, 24}
        THEN /\ last.result.sampled = (arg.word_count * 4) \div 3
             /\ last.result.sampled * 8 =
                    128 + 32 * ((arg.word_count - 12) \div 3)
             /\ IsOk(last.result.result)
             /\ last.result.result.val.word_count = arg.word_count
        ELSE /\ last.result.sampled = 0
             /\ IsErr(last.result.result)

\* C19 as stated: with a supported language, generate_mnemonic for a word
\* count n of 12, 15, 18, 21 or 24 draws n * 11 / 8 random bytes, which is
\* 128, 160, 192, 224 and 256 bits; for every other word count it draws
\* nothing and fails.
C19_ElevenEighths ==
    (last.fn = "generate_mnemonic" /\ IsOk(parse_language(arg.language))) =>
        IF arg.word_count \in {12, 15, 18, 21, 24}
        THEN /\ last.result.sampled = (arg.word_count * 11) \div 8
             /\ last.result.sampled * 8 =
                    128 + 32 * ((arg.word_count - 12) \div 3)
        ELSE /\ last.result.sampled = 0
             /\ IsErr(last.result.result)

C19_TwentyFourWords ==
    /\ last.fn = "generate_mnemonic"
    /\ arg.word_count = 24
    /\ last.result.sampled = 32
    /\ IsOk(last.result.result)

\* C20: for a driver with a five-level path and an index i, derivation_path(i)
\* is (purpose, coin_type, 0, 0, i) with the coin type of the registry (118
\* for Cosmos, Osmosis, Juno, Akash, Sei and Celestia, 529 for Secret, 60 for
\* Injective and Ethereum, 3 for Dogecoin) and purpose 44, but 84 for Bitcoin
\* SegWit and 86 for Bitcoin Taproot; the string reported with the address
\* reads m/p'/c'/0'/0/i for the secp256k1 chains and m/44'/c'/0'/0'/i' for
\* NEAR, Tezos, Hedera and TON.
C20_FiveLevelPath ==
    ( /\ last.fn = "generate_address"
      /\ arg.address_types[1] \notin {"Solana", "Stellar", "Sui"} ) =>
        LET t == arg.address_types[1]
            chain == create_chain(t)
            path == derivation_path(chain, arg.index)
            purpose == CASE t = "BitcoinSegwit" -> 84
                         [] t = "BitcoinTaproot" -> 86
                         [] OTHER -> 44
            all_hardened == t \in {"Near", "Tezos", "Hedera", "Ton"}
            secp256k1 == chain.driver \in Bip32Drivers
        IN  /\ path = [purpose |-> Lit(purpose),
                       coin_type |-> Lit(get_chain_info(t).coin_type),
                       account |-> Lit(0), change |-> Lit(0),
                       index |-> arg.index]
            /\ t \in {"Cosmos", "Osmosis", "Juno", "Akash", "Sei", "Celestia"}
                  => path.coin_type = Lit(118)
            /\ t = "Secret" => path.coin_type = Lit(529)
            /\ t \in {"Injective", "Ethereum"} => path.coin_type = Lit(60)
            /\ t = "Dogecoin" => path.coin_type = Lit(3)
            /\ (IsOk(last.result) /\ (secp256k1 \/ all_hardened)) =>
                  ParsePath(last.result.val.derivation_path) =
                      <<Step(Lit(purpose), TRUE), Step(path.coin_type, TRUE),
                        Step(Lit(0), TRUE), Step(Lit(0), all_hardened),
                        Step(arg.index, all_hardened)>>

C20_SecretPathReported ==
    /\ last.fn = "generate_address"
    /\ arg.address_types[1] = "Secret"
    /\ IsOk(last.result)
    /\ ParsePath(last.result.val.derivation_path)[2] = Step(Lit(529), TRUE)
    /\ arg.index = Lit(1)

\* C21: a Solana or Stellar key is derived through exactly the three
\* hardened levels 44', coin_type', i' (coin type 501, 148), and the path
\* reported with the address is exactly m/44'/501'/i', m/44'/148'/i'.
C21_ThreeLevels ==
    ( /\ last.fn = "generate_address"
      /\ arg.address_types[1] \in {"Solana", "Stellar"}
      /\ IsOk(last.result) ) =>
        LET coin_type == IF arg.address_types[1] = "Solana" THEN 501 ELSE 148
            levels == <<Step(Lit(44), TRUE), Step(Lit(coin_type), TRUE),
                        Step(arg.index, TRUE)>>
            input == last.result.val.private_key.input
        IN  /\ [k \in DOMAIN input |-> StepOfRaw(input[k])] = levels
            /\ ParsePath(last.result.val.derivation_path) = levels

\* C22: a Sui record does not depend on the requested index but for its
\* index field: the key is derived along 44'/784'/0'/0'/0', the reported
\* path is m/44'/784'/0'/0'/0', and address, public key and private key are
\* those of index 0 of the same seed.
C22_SuiIndexUnused ==
    ( /\ last.fn \in {"generate_address", "generate_wallet_address"}
      /\ arg.address_types[1] = "Sui"
      /\ IsOk(last.result) ) =>
        LET seed == to_seed(arg.mnemonic, arg.passphrase)
            first == IF last.fn = "generate_address"
                     THEN generate_address(create_chain("Sui"), seed, Lit(0))
                     ELSE generate_wallet_address(arg.mnemonic, arg.passphrase,
                                                  "Sui", Lit(0))
            fixed == <<Step(Lit(44), TRUE), Step(Lit(784), TRUE),
                       Step(Lit(0), TRUE), Step(Lit(0), TRUE), Step(Lit(0), TRUE)>>
        IN  /\ ParsePath(last.result.val.derivation_path) = fixed
            /\ last.result.val.address = first.val.address
            /\ last.result.val.public_key = first.val.public_key
            /\ last.result.val.private_key = first.val.private_key
            /\ last.result.val.index = arg.index

\* C23: whatever the interleaving of an HTTP and a gRPC request on the one
\* WalletService, at most one of them is inside the service at a time, and
\* a request that has ended has a response it can get when it runs alone.
C23_Isolated ==
    /\ Cardinality({c \in Clients : pc[c] = "service"}) <= 1
    /\ \A c \in Clients : pc[c] = "service" => mutex = c
    /\ \A c \in Clients : pc[c] = "done" => resp[c] \in Alone(c, req[c])

C23_EndedWhileOtherWaits ==
    /\ pc["http"] = "done"
    /\ locked["http"]
    /\ resp["http"].tag = "Ok"
    /\ pc["grpc"] = "lock"
    /\ req["grpc"].op = "batch"

\* C24: a request that has ended does not hold the WalletService mutex,
\* whether it ended well, with an error or without an answer; and under the
\* scheduling of the runtime a request that has been received ends, a
\* request that waits for the mutex gets it, and a held mutex is freed.
C24_MutexReleased ==
    /\ [](\A c \in Clients : pc[c] \in {"idle", "received", "lock", "done"}
                                 => mutex # c)
    /\ \A c \in Clients :
          (pc[c] \in {"received", "lock", "service"}) ~> (pc[c] = "done")

C24_FailedWhileOtherWaits ==
    /\ pc["http"] = "done"
    /\ locked["http"]
    /\ resp["http"].error = "CRYPTO_ERROR"
    /\ mutex = Free
    /\ pc["grpc"] = "lock"

\* C25: for every index, those of 2^31 and above included, generate_address
\* of a driver returns: a WalletAddress or an ApiError, never a panic on an
\* unwrap or on the overflow of 0x80000000 + index; and an index of 2^31 or
\* above, which no path can carry, is answered with an error.
C25_DriverReturns ==
    last.fn = "generate_address" =>
        /\ IsOk(last.result) \/ IsErr(last.result)
        /\ (arg.index.hi = 1 /\ arg.address_types[1] # "Sui") => IsErr(last.result)

\* C26: for a count of 1 to 100 and any start index, a batch fails with an
\* error or returns count records for each chain; it does not succeed with
\* fewer, as with no record at all after start_index + count has wrapped.
C26_FullBatchOrError ==
    ( /\ last.fn = "batch_generate_wallet_addresses"
      /\ arg.count >= 1
      /\ arg.count <= CountLimit ) =>
        \/ IsErr(last.result)
        \/ /\ IsOk(last.result)
           /\ Len(last.result.val) = arg.count * Len(arg.address_types)

\* C28: no request is authenticated with an empty API key: with API_KEY the
\* empty string every request that needs a key is answered as unauthenticated,
\* and the HTTP middleware and the gRPC check decide alike for the configured
\* key and the presented x-api-key value.
C28_NoEmptyKey ==
    \A c \in Clients :
        (pc[c] = "done" /\ req[c].op # "health") =>
            /\ API_KEY = "" => resp[c] = unauthenticated(c)
            /\ http_auth(API_KEY, req[c].x_api_key)
                   = check_auth(API_KEY, req[c].x_api_key)

\* C27: Ethereum::to_checksum_address and EvmChain::to_checksum_address return
\* the same string for the same bytes: "0x", then the hex characters of the
\* bytes, a letter a-f in upper case exactly when the hex digit of the
\* Keccak-256 digest at its position is 8 or more, a digit unchanged.
C27_EncodersAgree ==
    last.fn = "to_checksum_address" =>
        LET address_hex == hex_encode(arg.address_bytes)
            nibble(i) == IF i % 2 = 1 THEN arg.hash[(i + 1) \div 2] \div 16
                         ELSE arg.hash[i \div 2] % 16
            s == last.result.ethereum
        IN  /\ last.result.evm = s
            /\ Len(s) = 2 + 2 * Len(arg.address_bytes)
            /\ s[1] = 48 /\ s[2] = 120
            /\ \A i \in 1..Len(address_hex) :
                  s[i + 2] = IF address_hex[i] \in 97..102 /\ nibble(i) >= 8
                             THEN address_hex[i] - 32
                             ELSE address_hex[i]

\* the bytes f9 1a under a digest that starts 87 87: the letter f stands under
\* the digit 8 and becomes F, the letter a stands under the digit 7 and stays
C27_LetterUnderEight ==
    /\ last.fn = "to_checksum_address"
    /\ arg.address_bytes[1] = 249
    /\ arg.hash[1] = 135
    /\ arg.address_bytes[2] = 26
    /\ arg.hash[2] = 135
    /\ last.result.ethereum[3] = 70
    /\ last.result.evm[3] = 70
    /\ last.result.evm[6] = 97

\* C29: every symbol of supported_symbols is accepted by generation:
\* get_chain_types_by_symbol returns a list that is not empty for it, every
\* chain of the list has it as registry symbol, and every chain of
\* get_all_chain_types is in the list returned for its own registry symbol.
C29_AdvertisedIsAccepted ==
    last.fn = "get_chain_types_by_symbol" =>
        LET chain_types == last.result
            listed == {chain_types[i] : i \in DOMAIN chain_types}
        IN  /\ (\E i \in DOMAIN supported_symbols : supported_symbols[i] = arg.symbol) =>
                  /\ chain_types # <<>>
                  /\ \A t \in listed : get_chain_info(t).symbol = arg.symbol
            /\ \A i \in DOMAIN get_all_chain_types :
                  get_chain_info(get_all_chain_types[i]).symbol = arg.symbol =>
                      get_all_chain_types[i] \in listed

\* C30: the base32 encoder of Stellar writes ceil(8n/5) characters of A-Z2-7
\* for n bytes and no padding; the 35 bytes of a Stellar payload (version byte
\* 0x30, public key, CRC16) give 56 characters that start with G, which
\* Stellar's validate_address accepts; the encoder of Algorand gives the same
\* string, 58 characters for 36 bytes.
C30_Base32Length ==
    last.fn = "base32_encode" =>
        LET n == Len(arg.data)
            s == last.result.stellar
            base32(ch) == ch \in 65..90 \/ ch \in 50..55
            text == Text(IF s # <<>> /\ s[1] = 71 THEN "G" ELSE "", Len(s),
                         IF \A i \in DOMAIN s : base32(s[i]) THEN "base32"
                         ELSE "other",
                         n, "crc16")
        IN  /\ Len(s) = (8 * n + 4) \div 5
            /\ \A i \in DOMAIN s : base32(s[i])
            /\ last.result.algorand = s
            /\ (n = 35 /\ arg.data[1] = 48) =>
                  /\ Len(s) = 56
                  /\ s[1] = 71
                  /\ validate_address(create_chain("Stellar"), text)
            /\ n = 36 => Len(last.result.algorand) = 58

\* a Stellar payload has been encoded, as has a string of 36 bytes before it
C30_StellarPayloadEncoded ==
    /\ last.fn = "base32_encode"
    /\ Len(arg.data) = 35
    /\ arg.data[1] = 48
    /\ arg.data[2] = 255
    /\ Len(last.result.stellar) = 56
    /\ last.result.stellar[1] = 71

====
